---- MODULE Spec2Model ----
(***************************************************************************)
(* Bookmark synchronisation and taxonomy reconciliation of the             *)
(* chrome-favorite-expand extension.                                       *)
(*                                                                         *)
(* The repository holds two BookmarkService implementations:               *)
(*   A  src/unnamed/part_003        syncBookmarks / convertBrowserBookmarks *)
(*      (returns a boolean, offers addBookmarkToBrowser, buildCategoryTree: *)
(*      the interface the store in src/src/stores/bookmark.ts calls)       *)
(*   B  src/src/services/bookmark.ts syncBookmarks / processBookmarkNode   *)
(* Both are modelled.  Persistence is browser.storage.local behind         *)
(* StorageService (src/src/services/index.ts).                             *)
(***************************************************************************)
EXTENDS Integers, Sequences, FiniteSets, TLC

VARIABLES
    hostTree,       \* the browser's bookmark tree (browser.bookmarks)
    hostSeq,        \* ids the browser has handed out so far
    hostEdits,      \* changes made to the browser's tree so far
    pBookmarks,     \* storage: STORAGE_KEYS.BOOKMARKS
    pCategories,    \* storage: STORAGE_KEYS.CATEGORIES
    pTags,          \* storage: STORAGE_KEYS.TAGS
    pLastSync,      \* storage: STORAGE_KEYS.LAST_SYNC
    bookmarks,      \* store: bookmarks.value
    categories,     \* store: categories.value
    tags,           \* store: tags.value
    lastSyncTime,   \* store: lastSyncTime.value
    isSyncing,      \* store: isSyncing.value
    isLoading,      \* store: isLoading.value
    now,            \* the clock Date.now() reads
    uuidSeq,        \* number of uuidv4() values drawn so far
    proc,           \* the calls in flight: position and locals of each
    pass,           \* the last completed service sync pass: inputs and outputs
    prevPass,       \* the pass completed before it
    lastOp,         \* the last completed operation and its outcome
    listeners       \* MessageService.listeners: the callbacks of each type

vars == <<hostTree, hostSeq, hostEdits, pBookmarks, pCategories, pTags, pLastSync,
          bookmarks, categories, tags, lastSyncTime, isSyncing, isLoading, now,
          uuidSeq, proc, pass, prevPass, lastOp, listeners>>

hostVars  == <<hostTree, hostSeq, hostEdits>>
persVars  == <<pBookmarks, pCategories, pTags, pLastSync>>
storeVars == <<bookmarks, categories, tags, lastSyncTime, isSyncing, isLoading>>

----------------------------------------------------------------------------
(* Bounds of the model *)

MaxTime == 4
MaxUuid == 6
MaxHostEdits == 1
MaxPasses == 2
MaxOps == 2
MaxTagList == 2
MaxListeners == 2
LibrarySize == 22

----------------------------------------------------------------------------
(* Values *)

\* JavaScript's undefined, for the optional string fields
Undef == "<undefined>"
\* x || y takes y when x is undefined or the empty string
Falsy(s) == s = Undef \/ s = ""
OrElse(s, d) == IF Falsy(s) THEN d ELSE s
\* an optional number that is absent (lastVisited, index)
NoNumber == -1

Uuid(n) == "u" \o ToString(n)

Min(a, b) == IF a < b THEN a ELSE b

Range(s) == {s[i] : i \in 1..Len(s)}

\* Array.prototype.filter
Filter(s, Test(_)) == SelectSeq(s, Test)

\* s.filter(test).length
CountOf(s, Test(_)) == Len(SelectSeq(s, Test))

\* Array.prototype.findIndex: the first index that passes, 0 for -1
FindIndex(s, Test(_)) ==
    IF \E i \in 1..Len(s) : Test(s[i])
    THEN CHOOSE i \in 1..Len(s) : Test(s[i]) /\ \A j \in 1..(i-1) : ~Test(s[j])
    ELSE 0

\* The last index that passes, 0 when none does: what a Map built by
\* successive set(key, value) calls returns for the key
FindLastIndex(s, Test(_)) ==
    IF \E i \in 1..Len(s) : Test(s[i])
    THEN CHOOSE i \in 1..Len(s) : Test(s[i]) /\ \A j \in (i+1)..Len(s) : ~Test(s[j])
    ELSE 0

\* Array.prototype.map
MapSeq(s, F(_)) == [i \in 1..Len(s) |-> F(s[i])]

\* Array.prototype.splice(index, 1)
RemoveAt(s, i) ==
    IF i > Len(s) THEN s ELSE SubSeq(s, 1, i-1) \o SubSeq(s, i+1, Len(s))

----------------------------------------------------------------------------
(* Constants of the program *)

\* The names are the source's Chinese labels, written here in ASCII.
DEFAULT_CATEGORIES ==
    << [id |-> "all",           name |-> "All bookmarks"],
       [id |-> "frequent",      name |-> "Frequent"],
       [id |-> "recent",        name |-> "Recently added"],
       [id |-> "uncategorized", name |-> "Uncategorized"] >>

COLLAPSED == "collapsed"
EXPANDED  == "expanded"

ToolbarId == "toolbar_____"

----------------------------------------------------------------------------
(* Records *)

\* interface Bookmark
Bookmark(id, title, url, favicon, description, categoryId, tgs, createdAt, updatedAt, lastVisited, visitCount, aiGenerated, originalId, parentId, index) ==
    [id |-> id, title |-> title, url |-> url, favicon |-> favicon,
     description |-> description, categoryId |-> categoryId, tags |-> tgs,
     createdAt |-> createdAt, updatedAt |-> updatedAt,
     lastVisited |-> lastVisited, visitCount |-> visitCount,
     aiGenerated |-> aiGenerated, originalId |-> originalId,
     parentId |-> parentId, index |-> index]

\* interface Category
Category(id, name, parentId, order, createdAt, updatedAt, bookmarkCount, isAiGenerated, builtin, folderState) ==
    [id |-> id, name |-> name, parentId |-> parentId, order |-> order,
     createdAt |-> createdAt, updatedAt |-> updatedAt,
     bookmarkCount |-> bookmarkCount, isAiGenerated |-> isAiGenerated,
     builtin |-> builtin, folderState |-> folderState]

\* interface Tag
Tag(id, name, count, createdAt, updatedAt, isAiGenerated) ==
    [id |-> id, name |-> name, count |-> count, createdAt |-> createdAt,
     updatedAt |-> updatedAt, isAiGenerated |-> isAiGenerated]

\* A node of browser.bookmarks.getTree(): `up` is the node whose children
\* array holds it (Undef for the root), parentId the field the node carries;
\* url is Undef for a folder.
HostNode(id, up, parentId, title, url, dateAdded) ==
    [id |-> id, up |-> up, parentId |-> parentId, title |-> title,
     url |-> url, dateAdded |-> dateAdded]

\* node.children, in order
Children(tree, id) == SelectSeq(tree, LAMBDA n : n.up = id)

\* node.index: the node's position among its siblings
NodeIndex(tree, node) ==
    LET sibs == Children(tree, node.up)
    IN  (CHOOSE i \in 1..Len(sibs) : sibs[i].id = node.id) - 1

IsLeaf(node) == ~Falsy(node.url)

\* The ids of the leaves (nodes with a url) of a host tree
LeafIds(tree) == {n.id : n \in {m \in Range(tree) : IsLeaf(m)}}

\* DEFAULT_CATEGORIES.map(cat => ({...cat, order: 0, createdAt: Date.now(), ...}))
DefaultCategories(t) ==
    MapSeq(DEFAULT_CATEGORIES,
           LAMBDA cat : Category(cat.id, cat.name, Undef, 0, t, t, 0, FALSE,
                                 TRUE, Undef))

----------------------------------------------------------------------------
(* Service A: src/unnamed/part_003 *)

\* const bookmarkNode: BrowserBookmarkNode = { id, parentId: parentId || node.parentId, ... }
BrowserNode(tree, node, parentId) ==
    [id |-> node.id, parentId |-> OrElse(parentId, node.parentId),
     title |-> node.title, url |-> node.url, dateAdded |-> node.dateAdded,
     index |-> NodeIndex(tree, node)]

\* traverse(nodes, parentId) of flattenBookmarkTree
RECURSIVE traverse(_, _, _)
traverse(tree, nodes, parentId) ==
    IF nodes = <<>> THEN <<>>
    ELSE LET node == Head(nodes)
             kids == Children(tree, node.id)
             here == IF node.id = ToolbarId
                     THEN traverse(tree, kids, node.id)
                     ELSE <<BrowserNode(tree, node, parentId)>>
                          \o traverse(tree, kids, node.id)
         IN  here \o traverse(tree, Tail(nodes), parentId)

flattenBookmarkTree(tree) == traverse(tree, Children(tree, Undef), Undef)

\* Faulty variant: the result list starts from the stored records
KeepStoredBookmarksA(storedBookmarks) == storedBookmarks

\* const bookmarks: Bookmark[] = []
InitialBookmarksA(storedBookmarks) == <<>>

\* let categories = storedCategories.length > 0 ? [...storedCategories] : DEFAULT_CATEGORIES.map(...)
InitialCategoriesA(storedCategories, t) ==
    IF Len(storedCategories) > 0 THEN storedCategories ELSE DefaultCategories(t)

\* bookmarkMap.get(node.id) over new Map(storedBookmarks.map(b => [b.originalId, b])):
\* the index of the record found, 0 for undefined
BookmarkMapGetA(storedBookmarks, id) ==
    FindLastIndex(storedBookmarks, LAMBDA b : b.originalId = id)

\* { ...existingBookmark, title: node.title || existingBookmark.title,
\*   url: node.url || existingBookmark.url, updatedAt: Date.now(), originalId: node.id }
MergeBookmarkA(existingBookmark, node, t) ==
    [existingBookmark EXCEPT
        !.title = OrElse(node.title, existingBookmark.title),
        !.url = OrElse(node.url, existingBookmark.url),
        !.updatedAt = t,
        !.originalId = node.id]

\* { id: uuidv4(), title: node.title || '未命名书签', url: node.url, categoryId,
\*   tags: [], createdAt: node.dateAdded || Date.now(), updatedAt: Date.now(),
\*   visitCount: 0, originalId: node.id }   with categoryId = 'uncategorized'
NewBookmarkA(node, id, t) ==
    Bookmark(id, OrElse(node.title, "Untitled bookmark"), node.url, Undef,
             Undef, "uncategorized", <<>>,
             IF node.dateAdded = 0 THEN t ELSE node.dateAdded, t, NoNumber,
             0, Undef, node.id, Undef, NoNumber)

\* if (!bookmark.favicon) bookmark.favicon = `chrome://favicon/${url.origin}`
WithFavicon(b) ==
    IF Falsy(b.favicon) THEN [b EXCEPT !.favicon = "chrome://favicon/" \o b.url]
    ELSE b

\* for (const node of browserBookmarks) { ... bookmarks.push(bookmark) }
RECURSIVE convertLoop(_, _, _, _, _)
convertLoop(nodes, storedBookmarks, t, u, acc) ==
    IF nodes = <<>> THEN [bookmarks |-> acc, uuid |-> u]
    ELSE LET node == Head(nodes)
             i == BookmarkMapGetA(storedBookmarks, node.id)
         IN  IF ~IsLeaf(node)
             THEN convertLoop(Tail(nodes), storedBookmarks, t, u, acc)
             ELSE IF i # 0
             THEN convertLoop(Tail(nodes), storedBookmarks, t, u,
                     Append(acc, WithFavicon(MergeBookmarkA(storedBookmarks[i], node, t))))
             ELSE convertLoop(Tail(nodes), storedBookmarks, t, u + 1,
                     Append(acc, WithFavicon(NewBookmarkA(node, Uuid(u + 1), t))))

\* categories.map(category => ({...category,
\*   bookmarkCount: bookmarks.filter(b => b.categoryId === category.id).length,
\*   updatedAt: Date.now()}))
RecountCategoriesA(cats, bms, t) ==
    MapSeq(cats, LAMBDA category :
        [category EXCEPT
            !.bookmarkCount = CountOf(bms, LAMBDA b : b.categoryId = category.id),
            !.updatedAt = t])

\* convertBrowserBookmarks(browserBookmarks, storedBookmarks, storedCategories)
convertBrowserBookmarks(browserBookmarks, storedBookmarks, storedCategories, t, u) ==
    LET r == convertLoop(browserBookmarks, storedBookmarks, t, u,
                         InitialBookmarksA(storedBookmarks))
    IN  [bookmarks |-> r.bookmarks,
         categories |-> RecountCategoriesA(InitialCategoriesA(storedCategories, t),
                                           r.bookmarks, t),
         uuid |-> r.uuid,
         resolved |-> <<>>,
         storedBookmarks |-> storedBookmarks,
         storedCategories |-> storedCategories]

----------------------------------------------------------------------------
(* Service B: src/src/services/bookmark.ts *)

\* bookmarkMap.get(node.id) over the map filled for the records with an originalId
BookmarkMapGetB(existingBookmarks, id) ==
    FindLastIndex(existingBookmarks,
                  LAMBDA b : ~Falsy(b.originalId) /\ b.originalId = id)

\* existingCategories.find(c => c.name === node.title && !c.builtin): its index or 0
FindFolderCategory(existingCategories, node) ==
    FindIndex(existingCategories, LAMBDA c : c.name = node.title /\ ~c.builtin)

\* const newCategory: Category = { id: categoryId, name: node.title,
\*   parentId: parentCategoryId, order: node.index || 0, ..., folderState: COLLAPSED }
NewCategoryB(tree, node, categoryId, parentCategoryId, t) ==
    Category(categoryId, node.title, parentCategoryId, NodeIndex(tree, node),
             IF node.dateAdded = 0 THEN t ELSE node.dateAdded, t, 0, FALSE,
             FALSE, COLLAPSED)

\* if (existingBookmark && existingBookmark.updatedAt >= (node.dateAdded || 0)) keep it
KeepExistingB(existingBookmark, node) ==
    existingBookmark.updatedAt >= node.dateAdded

\* const bookmark: Bookmark = { id: existingBookmark?.id || uuidv4(), ... } for a
\* node with a prior record
RebuildBookmarkB(tree, existingBookmark, node, categoryId, t) ==
    Bookmark(existingBookmark.id, node.title, node.url,
             "chrome://favicon/" \o node.url, Undef, categoryId,
             existingBookmark.tags,
             IF existingBookmark.createdAt # 0 THEN existingBookmark.createdAt
             ELSE IF node.dateAdded = 0 THEN t ELSE node.dateAdded,
             t, NoNumber, existingBookmark.visitCount,
             existingBookmark.aiGenerated, node.id, node.parentId,
             NodeIndex(tree, node))

\* the same literal for a node with no prior record
NewBookmarkB(tree, node, id, categoryId, t) ==
    Bookmark(id, node.title, node.url, "chrome://favicon/" \o node.url, Undef,
             categoryId, <<>>, IF node.dateAdded = 0 THEN t ELSE node.dateAdded,
             t, NoNumber, 0, Undef, node.id, node.parentId,
             NodeIndex(tree, node))

\* const category = categoryMap.get(categoryId); if (category) category.bookmarkCount += 1
\* (the objects of categoryMap are the objects of newCategories)
IncrementCountB(newCategories, categoryId) ==
    LET i == FindLastIndex(newCategories, LAMBDA c : c.id = categoryId)
    IN  IF i = 0 THEN newCategories
        ELSE [newCategories EXCEPT ![i].bookmarkCount = @ + 1]

\* processBookmarkNode(node, parentCategoryId); acc holds bookmarks,
\* newCategories, the uuids drawn and, for each folder, the categoryId and the
\* parentCategoryId it was processed with; ctx the tree, the prior
\* collections and the clock
RECURSIVE processBookmarkNode(_, _, _, _)
RECURSIVE processChildren(_, _, _, _)
processBookmarkNode(ctx, node, parentCategoryId, acc) ==
    IF Falsy(node.parentId)
    THEN processChildren(ctx, Children(ctx.tree, node.id), Undef, acc)
    ELSE IF ~IsLeaf(node)
    THEN LET ei == FindFolderCategory(ctx.existingCategories, node)
             categoryId == IF ei # 0 THEN ctx.existingCategories[ei].id
                           ELSE Uuid(acc.uuid + 1)
             acc1 == IF ei # 0 THEN acc
                     ELSE [acc EXCEPT
                             !.newCategories = Append(@,
                                 NewCategoryB(ctx.tree, node, categoryId,
                                              parentCategoryId, ctx.t)),
                             !.uuid = @ + 1]
             acc2 == [acc1 EXCEPT !.resolved = Append(@,
                         [folder |-> node.id, categoryId |-> categoryId,
                          parentCategoryId |-> parentCategoryId])]
         IN  processChildren(ctx, Children(ctx.tree, node.id), categoryId, acc2)
    ELSE LET i == BookmarkMapGetB(ctx.existingBookmarks, node.id)
             categoryId == OrElse(parentCategoryId, "uncategorized")
         IN  IF i # 0 /\ KeepExistingB(ctx.existingBookmarks[i], node)
             THEN [acc EXCEPT !.bookmarks = Append(@, ctx.existingBookmarks[i])]
             ELSE IF i # 0
             THEN [acc EXCEPT
                     !.bookmarks = Append(@,
                         RebuildBookmarkB(ctx.tree, ctx.existingBookmarks[i],
                                          node, categoryId, ctx.t)),
                     !.newCategories = IncrementCountB(@, categoryId)]
             ELSE [acc EXCEPT
                     !.bookmarks = Append(@,
                         NewBookmarkB(ctx.tree, node, Uuid(acc.uuid + 1),
                                      categoryId, ctx.t)),
                     !.newCategories = IncrementCountB(@, categoryId),
                     !.uuid = @ + 1]

\* nodes.forEach(child => processBookmarkNode(child, parentCategoryId))
processChildren(ctx, nodes, parentCategoryId, acc) ==
    IF nodes = <<>> THEN acc
    ELSE processChildren(ctx, Tail(nodes), parentCategoryId,
             processBookmarkNode(ctx, Head(nodes), parentCategoryId, acc))

\* The traversal of BookmarkService.syncBookmarks:
\* rootNode[0].children?.forEach(child => processBookmarkNode(child)).
\* newCategories = [...existingCategories] holds the objects of
\* existingCategories, so what the traversal did to them shows in
\* existingCategories when it is over
syncBookmarksB(tree, existingBookmarks, existingCategories, t, u) ==
    LET rootNode == Children(tree, Undef)
        ctx == [tree |-> tree, existingBookmarks |-> existingBookmarks,
                existingCategories |-> existingCategories, t |-> t]
        acc0 == [bookmarks |-> <<>>, newCategories |-> existingCategories,
                 uuid |-> u, resolved |-> <<>>]
        r == processChildren(ctx, Children(tree, rootNode[1].id), Undef, acc0)
    IN  [bookmarks |-> r.bookmarks, categories |-> r.newCategories,
         uuid |-> r.uuid,
         resolved |-> r.resolved,
         existingBookmarks |-> existingBookmarks,
         existingCategories |-> SubSeq(r.newCategories, 1,
                                       Len(existingCategories))]

----------------------------------------------------------------------------
(* The browser's bookmark tree and the clock *)

Titles == {"Site A", "Site B"}
Urls   == {"https://a.example", "https://b.example"}

\* The pages the user bookmarks
Sites == { [title |-> "Site A", url |-> "https://a.example"],
           [title |-> "Site B", url |-> "https://b.example"] }

HostId(n) == "h" \o ToString(n)

FolderIds(tree) == {n.id : n \in {m \in Range(tree) : ~IsLeaf(m) /\ ~Falsy(m.parentId)}}

\* browser.bookmarks.create({title, url}) under folder `parent`: the browser
\* gives the node a fresh id and dateAdded
HostCreated(tree, n, parent, title, url, t) ==
    Append(tree, HostNode(HostId(n), parent, parent, title, url, t))

\* browser.bookmarks.remove(id)
HostRemoved(tree, id) == SelectSeq(tree, LAMBDA n : n.id # id)

\* browser.bookmarks.update(id, {title, url})
HostUpdated(tree, id, title, url) ==
    MapSeq(tree, LAMBDA n : IF n.id = id
                            THEN [n EXCEPT !.title = title, !.url = url]
                            ELSE n)

\* Time passes
Tick ==
    /\ now < MaxTime
    /\ now' = now + 1
    /\ UNCHANGED <<hostVars, listeners, persVars, storeVars, uuidSeq, proc, pass,
                   prevPass, lastOp>>

\* The user adds a bookmark in the browser's bookmark manager
HostAdd ==
    /\ hostEdits < MaxHostEdits
    /\ \E parent \in FolderIds(hostTree), site \in Sites :
          hostTree' = HostCreated(hostTree, hostSeq + 1, parent, site.title,
                                  site.url, now)
    /\ hostSeq' = hostSeq + 1
    /\ hostEdits' = hostEdits + 1
    /\ UNCHANGED <<listeners, persVars, storeVars, now, uuidSeq, proc, pass, prevPass,
                   lastOp>>

\* The user removes a bookmark in the browser's bookmark manager
HostRemove ==
    /\ hostEdits < MaxHostEdits
    /\ \E id \in LeafIds(hostTree) : hostTree' = HostRemoved(hostTree, id)
    /\ hostEdits' = hostEdits + 1
    /\ UNCHANGED <<listeners, hostSeq, persVars, storeVars, now, uuidSeq, proc, pass,
                   prevPass, lastOp>>

\* The user renames a bookmark or changes its address in the browser
HostEdit ==
    /\ hostEdits < MaxHostEdits
    /\ \E id \in LeafIds(hostTree), site \in Sites :
          /\ hostTree' = HostUpdated(hostTree, id, site.title, site.url)
          /\ hostTree' # hostTree
    /\ hostEdits' = hostEdits + 1
    /\ UNCHANGED <<listeners, hostSeq, persVars, storeVars, now, uuidSeq, proc, pass,
                   prevPass, lastOp>>

----------------------------------------------------------------------------
(* A service sync pass, start to end *)

NoPass == [impl |-> "none", n |-> 0]
NoOp   == [op |-> "none", n |-> 0]

\* private listeners: Map<string, Function[]> = new Map()
NoListeners == <<>>

PassRecord(impl, tree, priorB, priorC, r, n) ==
    [impl |-> impl, n |-> n, tree |-> tree, priorBookmarks |-> priorB,
     priorCategories |-> priorC, bookmarks |-> r.bookmarks,
     categories |-> r.categories, resolved |-> r.resolved,
     priorBookmarksAfter |-> IF impl = "A" THEN r.storedBookmarks
                             ELSE r.existingBookmarks,
     priorCategoriesAfter |-> IF impl = "A" THEN r.storedCategories
                              ELSE r.existingCategories]

\* part_003 syncBookmarks: getTree, flattenBookmarkTree, getBookmarks,
\* getCategories, convertBrowserBookmarks, saveBookmarks, saveCategories,
\* saveLastSyncTime(Date.now())
ServiceSyncA ==
    /\ pass.n < MaxPasses
    /\ LET r == convertBrowserBookmarks(flattenBookmarkTree(hostTree),
                                        pBookmarks, pCategories, now, uuidSeq)
       IN  /\ r.uuid <= MaxUuid
           /\ pBookmarks' = r.bookmarks
           /\ pCategories' = r.categories
           /\ pLastSync' = now
           /\ uuidSeq' = r.uuid
           /\ pass' = PassRecord("A", hostTree, pBookmarks, pCategories, r,
                                 pass.n + 1)
    /\ prevPass' = pass
    /\ UNCHANGED <<hostVars, listeners, pTags, storeVars, now, proc, lastOp>>

\* services/bookmark.ts syncBookmarks: getTree, getBookmarks, getCategories,
\* the traversal, saveBookmarks, saveCategories, saveLastSyncTime(Date.now())
ServiceSyncB ==
    /\ pass.n < MaxPasses
    /\ Len(Children(hostTree, Undef)) > 0
    /\ LET r == syncBookmarksB(hostTree, pBookmarks, pCategories, now, uuidSeq)
       IN  /\ r.uuid <= MaxUuid
           /\ pBookmarks' = r.bookmarks
           /\ pCategories' = r.categories
           /\ pLastSync' = now
           /\ uuidSeq' = r.uuid
           /\ pass' = PassRecord("B", hostTree, pBookmarks, pCategories, r,
                                 pass.n + 1)
    /\ prevPass' = pass
    /\ UNCHANGED <<hostVars, listeners, pTags, storeVars, now, proc, lastOp>>

----------------------------------------------------------------------------
(* The sync passes alone: prior collections and host trees drawn from the  *)
(* states the extension leaves behind, then passes of either service with  *)
(* the browser's tree changing in between.                                 *)

Root == HostNode("0", Undef, Undef, "", Undef, 0)

\* [Folder("Work", children = [Leaf("Site A", "https://a.example")])]
TreeWork ==
    << Root,
       HostNode("f1", "0", "0", "Work", Undef, 1),
       HostNode("h1", "f1", "f1", "Site A", "https://a.example", 2) >>

\* The browser's own layout: a bookmarks bar holding a folder and a bookmark
TreeBar ==
    << Root,
       HostNode("1", "0", "0", "Bookmarks bar", Undef, 1),
       HostNode("f1", "1", "1", "Work", Undef, 1),
       HostNode("h1", "f1", "f1", "Site A", "https://a.example", 2),
       HostNode("h2", "1", "1", "Site B", "https://b.example", 2) >>

InitialTrees == {TreeWork, TreeBar}

\* The record store addBookmark leaves for h1: built at time 1 (createdAt,
\* updatedAt), then created in the browser (dateAdded 2), put in the user's
\* category c1 with a tag and a note, and visited once since
AppRecord(updatedAt, ai) ==
    Bookmark("b1", "Site A", "https://a.example", Undef, "note", "c1",
             <<"t1">>, 1, updatedAt, 2, 1, ai, "h1", Undef, NoNumber)

\* The record store addBookmark leaves when browser.bookmarks.create failed:
\* no originalId
LocalRecord ==
    Bookmark("b2", "Local", "https://l.example", Undef, "", "uncategorized",
             <<>>, 1, 1, NoNumber, 0, Undef, Undef, Undef, NoNumber)

InitialBookmarkSets ==
    { <<>>, <<LocalRecord>> }
    \cup { <<AppRecord(1, Undef)>>, <<AppRecord(3, "ai")>> }
    \cup { <<AppRecord(1, Undef), LocalRecord>> }

\* The categories the store has saved for these bookmarks: the builtin ones
\* and the user's category c1, each with its count
InitialCategoriesFor(bms) ==
    RecountCategoriesA(
        DefaultCategories(1)
        \o << Category("c1", "Reading", Undef, 4, 1, 1, 0, FALSE, FALSE, Undef) >>,
        bms, 1)

\* The tags the store has saved for these bookmarks
InitialTagsFor(bms) ==
    IF \E i \in 1..Len(bms) : bms[i].tags # <<>>
    THEN << Tag("g1", "t1", 1, 1, 1, FALSE) >>
    ELSE <<>>

InitSync ==
    /\ hostTree \in InitialTrees
    /\ hostSeq = 2
    /\ hostEdits = 0
    /\ pBookmarks \in InitialBookmarkSets
    /\ pCategories = IF pBookmarks = <<>> THEN <<>>
                     ELSE InitialCategoriesFor(pBookmarks)
    /\ pTags = InitialTagsFor(pBookmarks)
    /\ pLastSync = 0
    /\ bookmarks = <<>>
    /\ categories = <<>>
    /\ tags = <<>>
    /\ lastSyncTime = 0
    /\ isSyncing = FALSE
    /\ isLoading = FALSE
    /\ now = 3
    /\ uuidSeq = 0
    /\ proc = <<>>
    /\ pass = NoPass
    /\ prevPass = NoPass
    /\ lastOp = NoOp
    /\ listeners = NoListeners

NextSync ==
    \/ ServiceSyncA
    \/ ServiceSyncB
    \/ HostAdd
    \/ HostRemove
    \/ HostEdit
    \/ Tick

SpecSync == InitSync /\ [][NextSync]_vars

----------------------------------------------------------------------------
(* Properties of a sync pass (SpecSync) *)

\* The prior record correlated to host id `id`, as a set (empty when none)
PriorFor(id) == {p \in Range(pass.priorBookmarks) : p.originalId = id}

\* The records of the pass's result correlated to host id `id`
ResultFor(id) == {r \in Range(pass.bookmarks) : r.originalId = id}

\* The leaves of the tree the pass read
PassLeaves == {n \in Range(pass.tree) : IsLeaf(n)}

\* The pass ran on the tree of the pass before it, by the same service, with
\* that pass's output as its prior state
IsResync ==
    /\ pass.n >= 2
    /\ pass.impl = prevPass.impl
    /\ pass.tree = prevPass.tree
    /\ pass.priorBookmarks = prevPass.bookmarks
    /\ pass.priorCategories = prevPass.categories

\* C1: a pass that runs on the identical host tree with the previous pass's
\* output as its prior state produces the same bookmarks and the same
\* categories (same ids, same updatedAt, no additional category).
C1_NoOpResyncIdempotent ==
    IsResync => /\ pass.bookmarks = prevPass.bookmarks
                /\ pass.categories = prevPass.categories

\* C2: every prior record whose originalId is still a leaf of the host tree
\* is in the result with its id, createdAt, tags, categoryId, description,
\* aiGenerated, visitCount and lastVisited unchanged.
C2_UpdatePreservingMerge ==
    pass.n >= 1 =>
        \A p \in Range(pass.priorBookmarks) :
            (~Falsy(p.originalId) /\ p.originalId \in LeafIds(pass.tree)) =>
                \E r \in ResultFor(p.originalId) :
                    /\ r.id = p.id
                    /\ r.createdAt = p.createdAt
                    /\ r.tags = p.tags
                    /\ r.categoryId = p.categoryId
                    /\ r.description = p.description
                    /\ r.aiGenerated = p.aiGenerated
                    /\ r.visitCount = p.visitCount
                    /\ r.lastVisited = p.lastVisited

\* C3: after a pass every record correlated to a host leaf carries that
\* leaf's title and url, and its updatedAt differs from the prior record's
\* exactly when the title or the url differed.
C3_HostEditsAbsorbed ==
    pass.n >= 1 =>
        \A node \in PassLeaves :
            \A r \in ResultFor(node.id) :
                /\ r.title = node.title
                /\ r.url = node.url
                /\ \A p \in PriorFor(node.id) :
                      (r.updatedAt # p.updatedAt)
                          <=> (p.title # node.title \/ p.url # node.url)

\* C4: a prior record whose host leaf is absent from the tree the pass read
\* is absent from the pass's result and from the persisted bookmarks.
C4_DeletionSemantics ==
    pass.n >= 1 =>
        \A p \in Range(pass.priorBookmarks) :
            (~Falsy(p.originalId) /\ p.originalId \notin LeafIds(pass.tree)) =>
                /\ \A r \in Range(pass.bookmarks) :
                      r.id # p.id /\ r.originalId # p.originalId
                /\ \A r \in Range(pBookmarks) :
                      r.id # p.id /\ r.originalId # p.originalId

\* C4 witness: a leaf the previous pass read and recorded was removed from
\* the browser before this pass
C4_Witness ==
    /\ pass.n >= 2
    /\ \E id \in LeafIds(prevPass.tree) \ LeafIds(pass.tree) :
          PriorFor(id) # {}

\* C5: a prior record with no originalId is in the pass's result and in the
\* persisted bookmarks, verbatim.
C5_LocalRecordSurvives ==
    pass.n >= 1 =>
        \A p \in Range(pass.priorBookmarks) :
            Falsy(p.originalId) =>
                p \in Range(pass.bookmarks) /\ p \in Range(pBookmarks)

\* The folder whose children array holds the node, as a set (empty when the
\* node hangs off the root, which is no folder of the user's)
ParentFolder(tree, node) ==
    {f \in Range(tree) : f.id = node.up /\ ~Falsy(f.parentId)}

\* C7: a host leaf with no prior record yields a record with that
\* originalId, no tags, visitCount 0 and the category resolved for its parent
\* folder (a non-builtin category of the folder's name), or 'uncategorized'
\* when it has no parent folder.
C7_FreshSyncCategorization ==
    pass.n >= 1 =>
        \A node \in PassLeaves :
            PriorFor(node.id) = {} =>
                /\ ResultFor(node.id) # {}
                /\ \A r \in ResultFor(node.id) :
                      /\ r.tags = <<>>
                      /\ r.visitCount = 0
                      /\ IF ParentFolder(pass.tree, node) = {}
                         THEN r.categoryId = "uncategorized"
                         ELSE \E f \in ParentFolder(pass.tree, node) :
                              \E c \in Range(pass.categories) :
                                  /\ c.id = r.categoryId
                                  /\ ~c.builtin
                                  /\ c.name = f.title

\* C8: after a completed pass every persisted category's bookmarkCount is
\* the number of persisted bookmarks in that category.
C8_CountConsistentAfterSync ==
    pass.n >= 1 =>
        \A c \in Range(pCategories) :
            c.bookmarkCount = CountOf(pBookmarks, LAMBDA b : b.categoryId = c.id)

----------------------------------------------------------------------------
(* The store: src/src/stores/bookmark.ts.  A call runs from one await to   *)
(* the next in one step; proc holds where each call in flight stands.      *)

Idle == [pc |-> "idle"]

AllIdle == \A k \in DOMAIN proc : proc[k].pc = "idle"

\* The callers' calls that are suspended at an await; the updateBookmark that
\* deleteCategory makes is part of the deleteCategory call
InFlight ==
    {k \in DOMAIN proc :
        /\ proc[k].pc # "idle"
        /\ ~(k = "upd" /\ proc[k].caller = "deleteCategory")}

\* Calls made so far
OpsBegun == lastOp.n + Cardinality(InFlight)

\* { ...old, ...changes }
Spread(old, changes) ==
    [k \in DOMAIN old |-> IF k \in DOMAIN changes THEN changes[k] ELSE old[k]]

\* partial.field, undefined when the field is absent
Get(partial, field) ==
    IF field \in DOMAIN partial THEN partial[field] ELSE Undef

\* partial.tags || []
GetTags(partial) == IF "tags" \in DOMAIN partial THEN partial.tags ELSE <<>>

\* What a completed call leaves in lastOp
Done(op, ok) == [op |-> op, n |-> lastOp.n + 1, ok |-> ok]

\* addBookmark: const newBookmark = { id: uuidv4(), title: bookmark.title || '未命名书签',
\*   url: bookmark.url || '', categoryId: bookmark.categoryId || 'uncategorized',
\*   tags: bookmark.tags || [], description: bookmark.description || '',
\*   createdAt: Date.now(), updatedAt: Date.now(), visitCount: 0, ...bookmark }
NewBookmarkStore(bookmark, id, t) ==
    Spread(Bookmark(id, OrElse(Get(bookmark, "title"), "Untitled bookmark"),
                    OrElse(Get(bookmark, "url"), ""), Undef,
                    OrElse(Get(bookmark, "description"), ""),
                    OrElse(Get(bookmark, "categoryId"), "uncategorized"),
                    GetTags(bookmark), t, t, NoNumber, 0, Undef, Undef, Undef,
                    NoNumber),
           bookmark)

\* Faulty variant: the category is left as it is
KeepCategories(cats, bms, categoryId, t) == cats

\* updateCategoryBookmarkCount(categoryId): categories.value after it
updateCategoryBookmarkCount(cats, bms, categoryId, t) ==
    LET index == FindIndex(cats, LAMBDA c : c.id = categoryId)
    IN  IF index = 0 THEN cats
        ELSE [cats EXCEPT ![index] =
                [@ EXCEPT !.bookmarkCount =
                              CountOf(bms, LAMBDA b : b.categoryId = categoryId),
                          !.updatedAt = t]]

\* tagMap.set(tag.name, tag) on a Map kept as the sequence of its values
TagMapSet(tagMap, tag) ==
    LET i == FindIndex(tagMap, LAMBDA x : x.name = tag.name)
    IN  IF i = 0 THEN Append(tagMap, tag) ELSE [tagMap EXCEPT ![i] = tag]

\* tags.value.forEach(tag => tagMap.set(tag.name, { ...tag, count: 0 }))
RECURSIVE TagMapInit(_, _)
TagMapInit(tgs, tagMap) ==
    IF tgs = <<>> THEN tagMap
    ELSE TagMapInit(Tail(tgs), TagMapSet(tagMap, [Head(tgs) EXCEPT !.count = 0]))

\* The tag names of all bookmarks, in the order the two forEach loops visit them
RECURSIVE AllTagNames(_)
AllTagNames(bms) ==
    IF bms = <<>> THEN <<>> ELSE Head(bms).tags \o AllTagNames(Tail(bms))

\* bookmark.tags.forEach(tagName => { if (tagMap.has(tagName)) tag.count++
\*   else tagMap.set(tagName, { id: uuidv4(), name: tagName, count: 1, ... }) })
RECURSIVE TagMapCount(_, _, _, _)
TagMapCount(names, tagMap, t, u) ==
    IF names = <<>> THEN [tags |-> tagMap, uuid |-> u]
    ELSE LET i == FindIndex(tagMap, LAMBDA x : x.name = Head(names))
         IN  IF i # 0
             THEN TagMapCount(Tail(names), [tagMap EXCEPT ![i].count = @ + 1], t, u)
             ELSE TagMapCount(Tail(names),
                      Append(tagMap, Tag(Uuid(u + 1), Head(names), 1, t, t, FALSE)),
                      t, u + 1)

\* Faulty variant: tag records that are no longer used are kept
RetagWithoutPruning(tgs, bms, t, u) ==
    TagMapCount(AllTagNames(bms), TagMapInit(tgs, <<>>), t, u)

\* updateTags(tagNames): tags.value after it, and the uuids drawn
updateTags(tgs, bms, t, u) ==
    LET r == TagMapCount(AllTagNames(bms), TagMapInit(tgs, <<>>), t, u)
    IN  [tags |-> SelectSeq(r.tags, LAMBDA tag : tag.count > 0), uuid |-> r.uuid]

\* The folder browser.bookmarks.create uses when no parentId is given
DefaultFolder(tree) == Children(tree, "0")[1].id

\* What callers pass to addBookmark
AddInputs ==
    { [title |-> "Site B", url |-> "https://b.example"],
      [title |-> "Site B", url |-> "https://b.example", categoryId |-> "c1",
       tags |-> <<"t1">>] }

\* ---- addBookmark ----

\* addBookmark up to `await bookmarkService.addBookmarkToBrowser(newBookmark)`;
\* the browser creates the node, or the call fails
AddBookmarkCall ==
    /\ proc.add.pc = "idle"
    /\ OpsBegun < MaxOps
    /\ uuidSeq < MaxUuid
    /\ \E bookmark \in AddInputs, hostOk \in BOOLEAN :
          LET newBookmark == NewBookmarkStore(bookmark, Uuid(uuidSeq + 1), now)
          IN  IF hostOk
              THEN /\ hostTree' = HostCreated(hostTree, hostSeq + 1,
                                              DefaultFolder(hostTree),
                                              newBookmark.title,
                                              newBookmark.url, now)
                   /\ hostSeq' = hostSeq + 1
                   /\ proc' = [proc EXCEPT !.add =
                                 [pc |-> "created", newBookmark |-> newBookmark,
                                  browserId |-> HostId(hostSeq + 1)]]
              ELSE /\ UNCHANGED <<hostTree, hostSeq>>
                   /\ proc' = [proc EXCEPT !.add =
                                 [pc |-> "created", newBookmark |-> newBookmark,
                                  browserId |-> Undef]]
    /\ uuidSeq' = uuidSeq + 1
    /\ UNCHANGED <<listeners, hostEdits, persVars, storeVars, now, pass, prevPass, lastOp>>

\* newBookmark.originalId = browserBookmark.id; bookmarks.value.push(newBookmark);
\* await storageService.saveBookmarks(bookmarks.value)
AddBookmarkCreated ==
    /\ proc.add.pc = "created"
    /\ LET newBookmark ==
               IF proc.add.browserId # Undef
               THEN [proc.add.newBookmark EXCEPT !.originalId = proc.add.browserId]
               ELSE proc.add.newBookmark
       IN  /\ bookmarks' = Append(bookmarks, newBookmark)
           /\ pBookmarks' = bookmarks'
           /\ proc' = [proc EXCEPT !.add = [pc |-> "saved",
                                            newBookmark |-> newBookmark]]
    /\ UNCHANGED <<hostVars, listeners, pCategories, pTags, pLastSync, categories, tags,
                   lastSyncTime, isSyncing, isLoading, now, uuidSeq, pass, prevPass, lastOp>>

\* await updateCategoryBookmarkCount(newBookmark.categoryId)
AddBookmarkSaved ==
    /\ proc.add.pc = "saved"
    /\ categories' = updateCategoryBookmarkCount(categories, bookmarks,
                         proc.add.newBookmark.categoryId, now)
    /\ pCategories' = IF categories' = categories THEN pCategories ELSE categories'
    /\ proc' = [proc EXCEPT !.add.pc = "counted"]
    /\ UNCHANGED <<hostVars, listeners, pBookmarks, pTags, pLastSync, bookmarks, tags,
                   lastSyncTime, isSyncing, isLoading, now, uuidSeq, pass, prevPass, lastOp>>

\* if (newBookmark.tags.length > 0) await updateTags(newBookmark.tags);
\* otherwise messageService.send('bookmark-added', newBookmark); return newBookmark
AddBookmarkCounted ==
    /\ proc.add.pc = "counted"
    /\ IF Len(proc.add.newBookmark.tags) > 0
       THEN LET r == updateTags(tags, bookmarks, now, uuidSeq)
            IN  /\ r.uuid <= MaxUuid
                /\ tags' = r.tags
                /\ pTags' = r.tags
                /\ uuidSeq' = r.uuid
                /\ proc' = [proc EXCEPT !.add.pc = "tagged"]
                /\ UNCHANGED lastOp
       ELSE /\ proc' = [proc EXCEPT !.add = Idle]
            /\ lastOp' = Done("addBookmark", TRUE) @@ [sent |-> <<"bookmark-added">>]
            /\ UNCHANGED <<tags, pTags, uuidSeq>>
    /\ UNCHANGED <<hostVars, listeners, pBookmarks, pCategories, pLastSync, bookmarks,
                   categories, lastSyncTime, isSyncing, isLoading, now, pass, prevPass>>

\* messageService.send('bookmark-added', newBookmark); return newBookmark
AddBookmarkTagged ==
    /\ proc.add.pc = "tagged"
    /\ proc' = [proc EXCEPT !.add = Idle]
    /\ lastOp' = Done("addBookmark", TRUE) @@ [sent |-> <<"bookmark-added">>]
    /\ UNCHANGED <<hostVars, listeners, persVars, storeVars, now, uuidSeq, pass, prevPass>>

\* ---- deleteBookmark ----

\* The ids callers pass: those on display, and one that no record has
BookmarkIds == {bookmarks[i].id : i \in 1..Len(bookmarks)} \cup {"missing"}

\* deleteBookmark up to `await bookmarkService.removeBookmarkFromBrowser(...)`,
\* or, for a record without originalId, up to `await saveBookmarks`
DeleteBookmarkCall ==
    /\ proc.del.pc = "idle"
    /\ OpsBegun < MaxOps
    /\ \E id \in BookmarkIds :
          LET index == FindIndex(bookmarks, LAMBDA b : b.id = id)
          IN  IF index = 0
              THEN /\ lastOp' = Done("deleteBookmark", FALSE)
                   /\ UNCHANGED <<hostTree, bookmarks, pBookmarks, proc>>
              ELSE /\ UNCHANGED lastOp
                   /\ IF bookmarks[index].originalId # Undef
                      THEN /\ hostTree' = HostRemoved(hostTree,
                                              bookmarks[index].originalId)
                           /\ proc' = [proc EXCEPT !.del =
                                         [pc |-> "removed", index |-> index,
                                          bookmark |-> bookmarks[index]]]
                           /\ UNCHANGED <<bookmarks, pBookmarks>>
                      ELSE /\ bookmarks' = RemoveAt(bookmarks, index)
                           /\ pBookmarks' = bookmarks'
                           /\ proc' = [proc EXCEPT !.del =
                                         [pc |-> "saved", index |-> index,
                                          bookmark |-> bookmarks[index]]]
                           /\ UNCHANGED hostTree
    /\ UNCHANGED <<listeners, hostSeq, hostEdits, pCategories, pTags, pLastSync,
                   categories, tags, lastSyncTime, isSyncing, isLoading, now, uuidSeq,
                   pass, prevPass>>

\* bookmarks.value.splice(index, 1); await storageService.saveBookmarks(...)
DeleteBookmarkRemoved ==
    /\ proc.del.pc = "removed"
    /\ bookmarks' = RemoveAt(bookmarks, proc.del.index)
    /\ pBookmarks' = bookmarks'
    /\ proc' = [proc EXCEPT !.del.pc = "saved"]
    /\ UNCHANGED <<hostVars, listeners, pCategories, pTags, pLastSync, categories, tags,
                   lastSyncTime, isSyncing, isLoading, now, uuidSeq, pass, prevPass, lastOp>>

\* await updateCategoryBookmarkCount(bookmark.categoryId)
DeleteBookmarkSaved ==
    /\ proc.del.pc = "saved"
    /\ categories' = updateCategoryBookmarkCount(categories, bookmarks,
                         proc.del.bookmark.categoryId, now)
    /\ pCategories' = IF categories' = categories THEN pCategories ELSE categories'
    /\ proc' = [proc EXCEPT !.del.pc = "counted"]
    /\ UNCHANGED <<hostVars, listeners, pBookmarks, pTags, pLastSync, bookmarks, tags,
                   lastSyncTime, isSyncing, isLoading, now, uuidSeq, pass, prevPass, lastOp>>

\* if (bookmark.tags.length > 0) await updateTags(bookmark.tags);
\* otherwise messageService.send('bookmark-deleted', id); return true
DeleteBookmarkCounted ==
    /\ proc.del.pc = "counted"
    /\ IF Len(proc.del.bookmark.tags) > 0
       THEN LET r == updateTags(tags, bookmarks, now, uuidSeq)
            IN  /\ r.uuid <= MaxUuid
                /\ tags' = r.tags
                /\ pTags' = r.tags
                /\ uuidSeq' = r.uuid
                /\ proc' = [proc EXCEPT !.del.pc = "tagged"]
                /\ UNCHANGED lastOp
       ELSE /\ proc' = [proc EXCEPT !.del = Idle]
            /\ lastOp' = Done("deleteBookmark", TRUE) @@ [sent |-> <<"bookmark-deleted">>]
            /\ UNCHANGED <<tags, pTags, uuidSeq>>
    /\ UNCHANGED <<hostVars, listeners, pBookmarks, pCategories, pLastSync, bookmarks,
                   categories, lastSyncTime, isSyncing, isLoading, now, pass, prevPass>>

\* messageService.send('bookmark-deleted', id); return true
DeleteBookmarkTagged ==
    /\ proc.del.pc = "tagged"
    /\ proc' = [proc EXCEPT !.del = Idle]
    /\ lastOp' = Done("deleteBookmark", TRUE) @@ [sent |-> <<"bookmark-deleted">>]
    /\ UNCHANGED <<hostVars, listeners, persVars, storeVars, now, uuidSeq, pass, prevPass>>

\* ---- updateBookmark ----

\* What callers pass to updateBookmark as changes
UpdateInputs ==
    { [categoryId |-> "c1"], [categoryId |-> "uncategorized"],
      [tags |-> <<>>], [tags |-> <<"T1">>], [title |-> "Site C"] }

\* updateBookmark(id, changes) up to its first await, for a record that exists:
\* const updatedBookmark = { ...oldBookmark, ...changes, updatedAt: Date.now() }
UpdateBookmarkBegin(base, id, changes, caller) ==
    LET index == FindIndex(bookmarks, LAMBDA b : b.id = id)
        oldBookmark == bookmarks[index]
        updatedBookmark == [Spread(oldBookmark, changes) EXCEPT !.updatedAt = now]
        local == [index |-> index, oldBookmark |-> oldBookmark,
                  updatedBookmark |-> updatedBookmark, caller |-> caller]
    IN  IF updatedBookmark.originalId # Undef
        THEN /\ hostTree' = HostUpdated(hostTree, updatedBookmark.originalId,
                                        updatedBookmark.title, updatedBookmark.url)
             /\ proc' = [base EXCEPT !.upd = [pc |-> "hosted"] @@ local]
             /\ UNCHANGED <<bookmarks, pBookmarks>>
        ELSE /\ bookmarks' = [bookmarks EXCEPT ![index] = updatedBookmark]
             /\ pBookmarks' = bookmarks'
             /\ proc' = [base EXCEPT !.upd = [pc |-> "saved"] @@ local]
             /\ UNCHANGED hostTree

UpdateBookmarkCall ==
    /\ proc.upd.pc = "idle"
    /\ OpsBegun < MaxOps
    /\ \E id \in BookmarkIds, changes \in UpdateInputs :
          IF FindIndex(bookmarks, LAMBDA b : b.id = id) = 0
          THEN /\ lastOp' = Done("updateBookmark", FALSE)
               /\ UNCHANGED <<hostTree, bookmarks, pBookmarks, proc>>
          ELSE /\ UpdateBookmarkBegin(proc, id, changes, "user")
               /\ UNCHANGED lastOp
    /\ UNCHANGED <<listeners, hostSeq, hostEdits, pCategories, pTags, pLastSync,
                   categories, tags, lastSyncTime, isSyncing, isLoading, now, uuidSeq,
                   pass, prevPass>>

\* bookmarks.value[index] = updatedBookmark; await saveBookmarks(bookmarks.value)
UpdateBookmarkHosted ==
    /\ proc.upd.pc = "hosted"
    /\ proc.upd.index <= Len(bookmarks)
    /\ bookmarks' = [bookmarks EXCEPT ![proc.upd.index] = proc.upd.updatedBookmark]
    /\ pBookmarks' = bookmarks'
    /\ proc' = [proc EXCEPT !.upd.pc = "saved"]
    /\ UNCHANGED <<hostVars, listeners, pCategories, pTags, pLastSync, categories, tags,
                   lastSyncTime, isSyncing, isLoading, now, uuidSeq, pass, prevPass, lastOp>>

\* JSON.stringify(oldBookmark.tags) !== JSON.stringify(updatedBookmark.tags)
TagsChanged(local) == local.oldBookmark.tags # local.updatedBookmark.tags

\* updateBookmark returns: to its caller's continuation, or to the user
UpdateBookmarkReturn ==
    IF proc.upd.caller = "deleteCategory"
    THEN /\ proc' = [proc EXCEPT !.upd = Idle, !.delcat.pc = "loop"]
         /\ UNCHANGED lastOp
    ELSE /\ proc' = [proc EXCEPT !.upd = Idle]
         /\ lastOp' = Done("updateBookmark", TRUE) @@ [sent |-> <<"bookmark-updated">>]

\* if (JSON.stringify(oldBookmark.tags) !== ...) await updateTags(...);
\* otherwise messageService.send('bookmark-updated', ...); return updatedBookmark
UpdateBookmarkTags ==
    IF TagsChanged(proc.upd)
    THEN LET r == updateTags(tags, bookmarks, now, uuidSeq)
         IN  /\ r.uuid <= MaxUuid
             /\ tags' = r.tags
             /\ pTags' = r.tags
             /\ uuidSeq' = r.uuid
             /\ proc' = [proc EXCEPT !.upd.pc = "tagged"]
             /\ UNCHANGED lastOp
    ELSE /\ UpdateBookmarkReturn
         /\ UNCHANGED <<tags, pTags, uuidSeq>>

\* if (oldBookmark.categoryId !== updatedBookmark.categoryId)
\*   await updateCategoryBookmarkCount(oldBookmark.categoryId) ...
UpdateBookmarkSaved ==
    /\ proc.upd.pc = "saved"
    /\ IF proc.upd.oldBookmark.categoryId # proc.upd.updatedBookmark.categoryId
       THEN /\ categories' = updateCategoryBookmarkCount(categories, bookmarks,
                                 proc.upd.oldBookmark.categoryId, now)
            /\ pCategories' = IF categories' = categories THEN pCategories
                              ELSE categories'
            /\ proc' = [proc EXCEPT !.upd.pc = "countedOld"]
            /\ UNCHANGED <<tags, pTags, uuidSeq, lastOp>>
       ELSE /\ UpdateBookmarkTags
            /\ UNCHANGED <<categories, pCategories>>
    /\ UNCHANGED <<hostVars, listeners, pBookmarks, pLastSync, bookmarks, lastSyncTime,
                   isSyncing, isLoading, now, pass, prevPass>>

\* ... await updateCategoryBookmarkCount(updatedBookmark.categoryId)
UpdateBookmarkCountedOld ==
    /\ proc.upd.pc = "countedOld"
    /\ categories' = updateCategoryBookmarkCount(categories, bookmarks,
                         proc.upd.updatedBookmark.categoryId, now)
    /\ pCategories' = IF categories' = categories THEN pCategories ELSE categories'
    /\ proc' = [proc EXCEPT !.upd.pc = "countedNew"]
    /\ UNCHANGED <<hostVars, listeners, pBookmarks, pTags, pLastSync, bookmarks, tags,
                   lastSyncTime, isSyncing, isLoading, now, uuidSeq, pass, prevPass, lastOp>>

UpdateBookmarkCountedNew ==
    /\ proc.upd.pc = "countedNew"
    /\ UpdateBookmarkTags
    /\ UNCHANGED <<hostVars, listeners, pBookmarks, pCategories, pLastSync, bookmarks,
                   categories, lastSyncTime, isSyncing, isLoading, now, pass, prevPass>>

\* messageService.send('bookmark-updated', updatedBookmark); return updatedBookmark
UpdateBookmarkTagged ==
    /\ proc.upd.pc = "tagged"
    /\ UpdateBookmarkReturn
    /\ UNCHANGED <<hostVars, listeners, persVars, storeVars, now, uuidSeq, pass, prevPass>>

\* ---- deleteCategory ----

\* The ids callers pass to deleteCategory
CategoryIds == {categories[i].id : i \in 1..Len(categories)} \cup {"missing"}

\* deleteCategory(id) up to the loop over affectedBookmarks
DeleteCategoryCall ==
    /\ proc.delcat.pc = "idle"
    /\ OpsBegun < MaxOps
    /\ \E id \in CategoryIds :
          LET index == FindIndex(categories, LAMBDA c : c.id = id)
          IN  IF index = 0 \/ (index # 0 /\ categories[index].builtin = TRUE)
              THEN /\ lastOp' = Done("deleteCategory", FALSE) @@ [id |-> id]
                   /\ UNCHANGED proc
              ELSE /\ proc' = [proc EXCEPT !.delcat =
                        [pc |-> "loop", id |-> id,
                         referenced |->
                             {bookmarks[i].id : i \in
                                 {k \in 1..Len(bookmarks) :
                                     bookmarks[k].categoryId = id}},
                         affectedBookmarks |->
                             SelectSeq(bookmarks, LAMBDA b : b.categoryId = id)]]
                   /\ UNCHANGED lastOp
    /\ UNCHANGED <<hostVars, listeners, persVars, storeVars, now, uuidSeq, pass, prevPass>>

\* for (const bookmark of affectedBookmarks)
\*   await updateBookmark(bookmark.id, { categoryId: 'uncategorized' })
\* and after the loop: categories.value = categories.value.filter(c => c.id !== id);
\* await storageService.saveCategories(categories.value)
DeleteCategoryLoop ==
    /\ proc.delcat.pc = "loop"
    /\ proc.upd.pc = "idle"
    /\ IF proc.delcat.affectedBookmarks # <<>>
       THEN LET id == Head(proc.delcat.affectedBookmarks).id
                rest == [proc EXCEPT !.delcat.pc = "updating",
                            !.delcat.affectedBookmarks = Tail(@)]
            IN  IF FindIndex(bookmarks, LAMBDA b : b.id = id) = 0
                THEN /\ proc' = [rest EXCEPT !.delcat.pc = "loop"]
                     /\ UNCHANGED <<hostTree, bookmarks, pBookmarks>>
                ELSE UpdateBookmarkBegin(rest, id,
                                         [categoryId |-> "uncategorized"],
                                         "deleteCategory")
            /\ UNCHANGED <<categories, pCategories>>
       ELSE /\ categories' = SelectSeq(categories,
                                       LAMBDA c : c.id # proc.delcat.id)
            /\ pCategories' = categories'
            /\ proc' = [proc EXCEPT !.delcat.pc = "saved"]
            /\ UNCHANGED <<hostTree, bookmarks, pBookmarks>>
    /\ UNCHANGED <<listeners, hostSeq, hostEdits, pTags, pLastSync, tags, lastSyncTime,
                   isSyncing, isLoading, now, uuidSeq, pass, prevPass, lastOp>>

\* messageService.send('category-deleted', category); return true
DeleteCategorySaved ==
    /\ proc.delcat.pc = "saved"
    /\ proc' = [proc EXCEPT !.delcat = Idle]
    /\ lastOp' = Done("deleteCategory", TRUE)
                  @@ [id |-> proc.delcat.id, referenced |-> proc.delcat.referenced]
    /\ UNCHANGED <<hostVars, listeners, persVars, storeVars, now, uuidSeq, pass, prevPass>>

\* ---- syncBookmarks and loadData ----

\* Faulty variant: no call is turned away
NoSyncGuard(flag) == FALSE

\* if (isSyncing.value) return false
SyncGuard(flag) == flag

\* if (isSyncing.value) return false; isSyncing.value = true;
\* bookmarkService.syncBookmarks() up to `await browser.bookmarks.getTree()`
SyncBookmarksCall ==
    /\ proc.sync.pc = "idle"
    /\ OpsBegun < MaxOps
    /\ IF SyncGuard(isSyncing)
       THEN /\ lastOp' = Done("syncBookmarks", FALSE)
            /\ UNCHANGED <<isSyncing, isLoading, proc>>
       ELSE /\ isSyncing' = TRUE
            /\ UNCHANGED isLoading
            /\ proc' = [proc EXCEPT !.sync = [pc |-> "getTree"]]
            /\ UNCHANGED lastOp
    /\ UNCHANGED <<hostVars, listeners, persVars, bookmarks, categories, tags,
                   lastSyncTime, now, uuidSeq, pass, prevPass>>

\* const browserBookmarks = this.flattenBookmarkTree(bookmarkTree);
\* const storedBookmarks = await storageService.getBookmarks()
SyncGotTree ==
    /\ proc.sync.pc = "getTree"
    /\ proc' = [proc EXCEPT !.sync =
                  [pc |-> "getBookmarks",
                   browserBookmarks |-> flattenBookmarkTree(hostTree)]]
    /\ UNCHANGED <<hostVars, listeners, persVars, storeVars, now, uuidSeq, pass, prevPass,
                   lastOp>>

\* const storedCategories = await storageService.getCategories()
SyncGotBookmarks ==
    /\ proc.sync.pc = "getBookmarks"
    /\ proc' = [proc EXCEPT !.sync =
                  [pc |-> "getCategories",
                   browserBookmarks |-> proc.sync.browserBookmarks,
                   storedBookmarks |-> pBookmarks]]
    /\ UNCHANGED <<hostVars, listeners, persVars, storeVars, now, uuidSeq, pass, prevPass,
                   lastOp>>

\* convertBrowserBookmarks(...); await storageService.saveBookmarks(bookmarks)
SyncGotCategories ==
    /\ proc.sync.pc = "getCategories"
    /\ LET r == convertBrowserBookmarks(proc.sync.browserBookmarks,
                    proc.sync.storedBookmarks, pCategories, now, uuidSeq)
       IN  /\ r.uuid <= MaxUuid
           /\ uuidSeq' = r.uuid
           /\ pBookmarks' = r.bookmarks
           /\ proc' = [proc EXCEPT !.sync =
                         [pc |-> "savedBookmarks", categories |-> r.categories,
                          storedBookmarks |-> proc.sync.storedBookmarks,
                          storedCategories |-> pCategories]]
    /\ UNCHANGED <<hostVars, listeners, pCategories, pTags, pLastSync, storeVars, now,
                   pass, prevPass, lastOp>>

\* await storageService.saveCategories(categories)
SyncSavedBookmarks ==
    /\ proc.sync.pc = "savedBookmarks"
    /\ pCategories' = proc.sync.categories
    /\ proc' = [proc EXCEPT !.sync =
                  [pc |-> "savedCategories",
                   storedBookmarks |-> proc.sync.storedBookmarks,
                   storedCategories |-> proc.sync.storedCategories]]
    /\ UNCHANGED <<hostVars, listeners, pBookmarks, pTags, pLastSync, storeVars, now,
                   uuidSeq, pass, prevPass, lastOp>>

\* await storageService.saveLastSyncTime(Date.now())
SyncSavedCategories ==
    /\ proc.sync.pc = "savedCategories"
    /\ pLastSync' = now
    /\ proc' = [proc EXCEPT !.sync = [pc |-> "savedLastSync"]]
    /\ UNCHANGED <<hostVars, listeners, pBookmarks, pCategories, pTags, storeVars, now,
                   uuidSeq, pass, prevPass, lastOp>>

\* return true; if (success) await loadData(), which sets isLoading.value =
\* true and runs up to `bookmarks.value = await storageService.getBookmarks()`
SyncServiceReturned ==
    /\ proc.sync.pc = "savedLastSync"
    /\ isLoading' = TRUE
    /\ proc' = [proc EXCEPT !.sync = [pc |-> "loadBookmarks"]]
    /\ UNCHANGED <<hostVars, listeners, persVars, bookmarks, categories, tags,
                   lastSyncTime, isSyncing, now, uuidSeq, pass, prevPass,
                   lastOp>>

\* bookmarks.value = <the stored bookmarks>;
\* const savedCategories = await storageService.getCategories()
LoadGotBookmarks ==
    /\ proc.sync.pc = "loadBookmarks"
    /\ bookmarks' = pBookmarks
    /\ proc' = [proc EXCEPT !.sync = [pc |-> "loadCategories"]]
    /\ UNCHANGED <<hostVars, listeners, persVars, categories, tags, lastSyncTime,
                   isSyncing, isLoading, now, uuidSeq, pass, prevPass, lastOp>>

\* categories.value = savedCategories.length > 0 ? savedCategories : <defaults>;
\* tags.value = await storageService.getTags()
LoadGotCategories ==
    /\ proc.sync.pc = "loadCategories"
    /\ categories' = IF Len(pCategories) > 0 THEN pCategories
                     ELSE DefaultCategories(now)
    /\ proc' = [proc EXCEPT !.sync = [pc |-> "loadTags"]]
    /\ UNCHANGED <<hostVars, listeners, persVars, bookmarks, tags, lastSyncTime,
                   isSyncing, isLoading, now, uuidSeq, pass, prevPass, lastOp>>

\* tags.value = <the stored tags>;
\* lastSyncTime.value = await storageService.getLastSyncTime()
LoadGotTags ==
    /\ proc.sync.pc = "loadTags"
    /\ tags' = pTags
    /\ proc' = [proc EXCEPT !.sync = [pc |-> "loadLastSync"]]
    /\ UNCHANGED <<hostVars, listeners, persVars, bookmarks, categories, lastSyncTime,
                   isSyncing, isLoading, now, uuidSeq, pass, prevPass, lastOp>>

\* const oneDayAgo = Date.now() - 24 * 60 * 60 * 1000, in units of the clock
OneDay == 1

\* if (bookmarks.value.length === 0 || lastSyncTime.value < oneDayAgo)
AutoSyncWanted(bks, last, t) == Len(bks) = 0 \/ last < t - OneDay

\* loadData's `syncBookmarks()`, not awaited: nothing when the condition does
\* not ask for it; `if (isSyncing.value) return false`; otherwise
\* isSyncing.value = true and a pass starts with `await
\* browser.bookmarks.getTree()`, in the first of the two slots that is free
AutoSync(wanted, p, flag) ==
    IF ~wanted THEN [outcome |-> "none", proc |-> p, isSyncing |-> flag]
    ELSE IF SyncGuard(flag)
    THEN [outcome |-> "rejected", proc |-> p, isSyncing |-> flag]
    ELSE [outcome |-> "started", isSyncing |-> TRUE,
          proc |-> IF p.sync.pc = "idle"
                   THEN [p EXCEPT !.sync = [pc |-> "getTree"]]
                   ELSE [p EXCEPT !.sync2 = [pc |-> "getTree"]]]

\* lastSyncTime.value = <the stored time>; the automatic syncBookmarks() of
\* loadData, which returns false at the guard while isSyncing is true; loadData
\* returns true and its finally sets isLoading.value = false;
\* lastSyncTime.value = Date.now(); await saveLastSyncTime(lastSyncTime.value)
LoadGotLastSync ==
    /\ proc.sync.pc = "loadLastSync"
    /\ LET a == AutoSync(AutoSyncWanted(bookmarks, pLastSync, now),
                         [proc EXCEPT !.sync = [pc |-> "savedTime"]], isSyncing)
       IN  /\ proc' = [a.proc EXCEPT !.sync =
                         [pc |-> "savedTime", autoSync |-> a.outcome]]
           /\ isSyncing' = a.isSyncing
    /\ isLoading' = FALSE
    /\ lastSyncTime' = now
    /\ pLastSync' = now
    /\ UNCHANGED <<hostVars, listeners, pBookmarks, pCategories, pTags, bookmarks,
                   categories, tags, now, uuidSeq, pass, prevPass, lastOp>>

\* messageService.send('bookmarks-updated'); return success;
\* finally isSyncing.value = false
SyncBookmarksReturn ==
    /\ proc.sync.pc = "savedTime"
    /\ isSyncing' = FALSE
    /\ UNCHANGED isLoading
    /\ proc' = [proc EXCEPT !.sync = Idle]
    /\ lastOp' = Done("syncBookmarks", TRUE)
                 @@ [sent |-> <<"bookmarks-updated">>,
                     autoSync |-> proc.sync.autoSync]
    /\ UNCHANGED <<hostVars, listeners, persVars, bookmarks, categories, tags,
                   lastSyncTime, now, uuidSeq, pass, prevPass>>

----------------------------------------------------------------------------
(* Service-level bookmark operations of src/src/services/bookmark.ts; they *)
(* read and write the persisted collections only.  Each runs alone here.   *)

\* `chrome://favicon/${bookmark.url}`
FaviconOf(url) == "chrome://favicon/" \o (IF url = Undef THEN "undefined" ELSE url)

\* addBookmark: const newBookmark = { id: bookmarkId, title: bookmark.title || '',
\*   ..., createdAt: now, updatedAt: now, visitCount: 0, ...bookmark }
NewBookmarkService(bookmark, id, t) ==
    Spread(Bookmark(id, OrElse(Get(bookmark, "title"), ""),
                    OrElse(Get(bookmark, "url"), ""),
                    OrElse(Get(bookmark, "favicon"),
                           FaviconOf(Get(bookmark, "url"))),
                    OrElse(Get(bookmark, "description"), ""),
                    OrElse(Get(bookmark, "categoryId"), "uncategorized"),
                    GetTags(bookmark), t, t, NoNumber, 0, Undef, Undef, Undef,
                    NoNumber),
           bookmark)

\* updateCategoryCount(categoryId, delta): the stored categories after it
updateCategoryCount(cats, categoryId, delta, t) ==
    LET categoryIndex == FindIndex(cats, LAMBDA c : c.id = categoryId)
    IN  IF categoryIndex = 0 THEN cats
        ELSE [cats EXCEPT ![categoryIndex] =
                [@ EXCEPT !.bookmarkCount = @ + delta, !.updatedAt = t]]

\* The ids callers pass to the service: those stored, and one that is not
StoredBookmarkIds == {pBookmarks[i].id : i \in 1..Len(pBookmarks)} \cup {"missing"}

\* bookmarkService.addBookmark(bookmark); settings.ai.apiKey is '' as in
\* DEFAULT_SETTINGS, so no analysis is started
ServiceAddBookmark ==
    /\ OpsBegun < MaxOps
    /\ uuidSeq < MaxUuid
    /\ \E bookmark \in AddInputs :
          LET newBookmark == NewBookmarkService(bookmark, Uuid(uuidSeq + 1), now)
          IN  /\ pCategories' = updateCategoryCount(pCategories,
                                    newBookmark.categoryId, 1, now)
              /\ pBookmarks' = Append(pBookmarks, newBookmark)
    /\ uuidSeq' = uuidSeq + 1
    /\ lastOp' = Done("service.addBookmark", TRUE)
    /\ UNCHANGED <<hostVars, listeners, pTags, pLastSync, storeVars, now, proc, pass,
                   prevPass>>

\* bookmarkService.updateBookmark(id, data)
ServiceUpdateBookmark ==
    /\ OpsBegun < MaxOps
    /\ \E id \in StoredBookmarkIds, data \in UpdateInputs :
          LET bookmarkIndex == FindIndex(pBookmarks, LAMBDA b : b.id = id)
          IN  IF bookmarkIndex = 0
              THEN /\ lastOp' = Done("service.updateBookmark", FALSE)
                   /\ UNCHANGED <<pBookmarks, pCategories>>
              ELSE LET oldBookmark == pBookmarks[bookmarkIndex]
                       updatedBookmark ==
                           [Spread(oldBookmark, data) EXCEPT !.updatedAt = now]
                   IN  /\ pCategories' =
                             IF ~Falsy(Get(data, "categoryId"))
                                /\ data.categoryId # oldBookmark.categoryId
                             THEN updateCategoryCount(
                                      updateCategoryCount(pCategories,
                                          oldBookmark.categoryId, -1, now),
                                      data.categoryId, 1, now)
                             ELSE pCategories
                       /\ pBookmarks' = [pBookmarks EXCEPT ![bookmarkIndex] =
                                           updatedBookmark]
                       /\ lastOp' = Done("service.updateBookmark", TRUE)
    /\ UNCHANGED <<hostVars, listeners, pTags, pLastSync, storeVars, now, uuidSeq, proc,
                   pass, prevPass>>

\* bookmarkService.deleteBookmark(id)
ServiceDeleteBookmark ==
    /\ OpsBegun < MaxOps
    /\ \E id \in StoredBookmarkIds :
          LET bookmarkIndex == FindIndex(pBookmarks, LAMBDA b : b.id = id)
          IN  IF bookmarkIndex = 0
              THEN /\ lastOp' = Done("service.deleteBookmark", FALSE)
                   /\ UNCHANGED <<pBookmarks, pCategories>>
              ELSE /\ pCategories' = updateCategoryCount(pCategories,
                                         pBookmarks[bookmarkIndex].categoryId,
                                         -1, now)
                   /\ pBookmarks' = RemoveAt(pBookmarks, bookmarkIndex)
                   /\ lastOp' = Done("service.deleteBookmark", TRUE)
    /\ UNCHANGED <<hostVars, listeners, pTags, pLastSync, storeVars, now, uuidSeq, proc,
                   pass, prevPass>>

----------------------------------------------------------------------------
(* SpecStore: the store and the service used one call at a time.           *)
(* SpecStoreOnly: the same without the service-level calls.                *)
(* SpecConc: store addBookmark, deleteBookmark and syncBookmarks called    *)
(* while others are suspended at an await.                                 *)

\* The record a sync pass made for the browser's bookmark h2
SyncedRecord ==
    Bookmark("b3", "Site B", "https://b.example",
             "chrome://favicon/https://b.example", Undef, "uncategorized",
             <<>>, 2, 2, NoNumber, 0, Undef, "h2", Undef, NoNumber)

\* The store after loadData, with the browser's two bookmarks known to it:
\* one filed under the user's category c1 and tagged, one as the sync left it
InitStore ==
    /\ hostTree = TreeBar
    /\ hostSeq = 2
    /\ hostEdits = 0
    /\ bookmarks = << AppRecord(2, Undef), SyncedRecord >>
    /\ categories = InitialCategoriesFor(bookmarks)
    /\ tags = InitialTagsFor(bookmarks)
    /\ lastSyncTime = 2
    /\ pBookmarks = bookmarks
    /\ pCategories = categories
    /\ pTags = tags
    /\ pLastSync = lastSyncTime
    /\ isSyncing = FALSE
    /\ isLoading = FALSE
    /\ now = 3
    /\ uuidSeq = 0
    /\ proc = [add |-> Idle, upd |-> Idle, del |-> Idle, delcat |-> Idle,
               sync |-> Idle, addcat |-> Idle, updcat |-> Idle,
               sync2 |-> Idle, sadd1 |-> Idle, sadd2 |-> Idle,
               sdel |-> Idle, ai |-> Idle, load |-> Idle]
    /\ pass = NoPass
    /\ prevPass = NoPass
    /\ lastOp = NoOp
    /\ listeners = NoListeners

AddBookmarkSteps ==
    \/ AddBookmarkCreated
    \/ AddBookmarkSaved
    \/ AddBookmarkCounted
    \/ AddBookmarkTagged

DeleteBookmarkSteps ==
    \/ DeleteBookmarkRemoved
    \/ DeleteBookmarkSaved
    \/ DeleteBookmarkCounted
    \/ DeleteBookmarkTagged

UpdateBookmarkSteps ==
    \/ UpdateBookmarkHosted
    \/ UpdateBookmarkSaved
    \/ UpdateBookmarkCountedOld
    \/ UpdateBookmarkCountedNew
    \/ UpdateBookmarkTagged

DeleteCategorySteps ==
    \/ DeleteCategoryLoop
    \/ DeleteCategorySaved

SyncBookmarksSteps ==
    \/ SyncGotTree
    \/ SyncGotBookmarks
    \/ SyncGotCategories
    \/ SyncSavedBookmarks
    \/ SyncSavedCategories
    \/ SyncServiceReturned
    \/ LoadGotBookmarks
    \/ LoadGotCategories
    \/ LoadGotTags
    \/ LoadGotLastSync
    \/ SyncBookmarksReturn

NextStore ==
    \/ AllIdle /\ AddBookmarkCall
    \/ AllIdle /\ UpdateBookmarkCall
    \/ AllIdle /\ DeleteBookmarkCall
    \/ AllIdle /\ DeleteCategoryCall
    \/ AllIdle /\ SyncBookmarksCall
    \/ AllIdle /\ ServiceAddBookmark
    \/ AllIdle /\ ServiceUpdateBookmark
    \/ AllIdle /\ ServiceDeleteBookmark
    \/ AllIdle /\ HostRemove
    \/ AllIdle /\ Tick
    \/ AddBookmarkSteps
    \/ UpdateBookmarkSteps
    \/ DeleteBookmarkSteps
    \/ DeleteCategorySteps
    \/ SyncBookmarksSteps

SpecStore == InitStore /\ [][NextStore]_vars

\* The store alone: nothing but the store writes the persisted collections
NextStoreOnly ==
    \/ AllIdle /\ AddBookmarkCall
    \/ AllIdle /\ UpdateBookmarkCall
    \/ AllIdle /\ DeleteBookmarkCall
    \/ AllIdle /\ DeleteCategoryCall
    \/ AllIdle /\ SyncBookmarksCall
    \/ AllIdle /\ HostRemove
    \/ AllIdle /\ Tick
    \/ AddBookmarkSteps
    \/ UpdateBookmarkSteps
    \/ DeleteBookmarkSteps
    \/ DeleteCategorySteps
    \/ SyncBookmarksSteps

SpecStoreOnly == InitStore /\ [][NextStoreOnly]_vars

NextConc ==
    \/ AddBookmarkCall
    \/ DeleteBookmarkCall
    \/ SyncBookmarksCall
    \/ AddBookmarkSteps
    \/ DeleteBookmarkSteps
    \/ SyncBookmarksSteps

SpecConc == InitStore /\ [][NextConc]_vars

----------------------------------------------------------------------------
(* Properties of the store                                                 *)

\* No two records of bms have the same defined originalId
UniqueOriginalIds(bms) ==
    \A i, j \in 1..Len(bms) :
        (i # j /\ bms[i].originalId # Undef) => bms[i].originalId # bms[j].originalId

\* Host ids are unique in the host tree
UniqueHostIds ==
    \A i, j \in 1..Len(hostTree) : i # j => hostTree[i].id # hostTree[j].id

\* C6: at most one record per host id: under any interleaving at await points
\* of store addBookmark, deleteBookmark and syncBookmarks, with host ids unique
\* in the host tree, no two records of the store or of the persisted bookmarks
\* have the same defined originalId.
C6_OneRecordPerHostId ==
    UniqueHostIds => UniqueOriginalIds(bookmarks) /\ UniqueOriginalIds(pBookmarks)

\* Every category of cats counts the records of bms filed under it
CountsConsistent(bms, cats) ==
    \A i \in 1..Len(cats) :
        cats[i].bookmarkCount =
            CountOf(bms, LAMBDA b : b.categoryId = cats[i].id)

ServiceOps == {"service.addBookmark", "service.updateBookmark",
               "service.deleteBookmark"}

\* The store's counts are right whenever no call is in flight
StoreCountsConsistent == AllIdle => CountsConsistent(bookmarks, categories)

\* A service-level call that completes keeps the persisted counts right
ServiceKeepsCounts ==
    (/\ lastOp'.n # lastOp.n
     /\ lastOp'.op \in ServiceOps
     /\ lastOp'.ok
     /\ CountsConsistent(pBookmarks, pCategories))
        => CountsConsistent(pBookmarks', pCategories')

\* C9: count consistency under CRUD: from a consistent state, after each
\* completed store addBookmark, updateBookmark, deleteBookmark or deleteCategory
\* every category of the store has bookmarkCount equal to the number of store
\* bookmarks filed under it; and a completed service-level addBookmark,
\* updateBookmark or deleteBookmark that starts from consistent persisted
\* collections leaves them consistent.
C9_CountConsistentUnderCrud ==
    /\ [](StoreCountsConsistent)
    /\ [][ServiceKeepsCounts]_vars

StoreCategoryCount(id) ==
    LET i == FindIndex(categories, LAMBDA c : c.id = id)
    IN  IF i = 0 THEN NoNumber ELSE categories[i].bookmarkCount

\* A store updateBookmark has moved the second bookmark into c1 and completed
C9_Witness ==
    /\ AllIdle
    /\ lastOp.op = "updateBookmark"
    /\ lastOp.ok
    /\ StoreCategoryCount("c1") = 2
    /\ StoreCategoryCount("uncategorized") = 0

\* Every tag record of tgs has a count above 0 that equals the number of
\* records of bms whose tag list contains its name
TagsConsistent(bms, tgs) ==
    \A i \in 1..Len(tgs) :
        /\ tgs[i].count > 0
        /\ tgs[i].count =
               CountOf(bms, LAMBDA b : \E k \in 1..Len(b.tags) : b.tags[k] = tgs[i].name)

\* C10: tag aggregate invariant: after any completed store deleteBookmark,
\* updateBookmark or syncBookmarks, no tag record in the store or in
\* persistence has count 0 and every tag record's count equals the number of
\* bookmarks whose tag list contains it.
C10_TagAggregateInvariant ==
    (/\ AllIdle
     /\ lastOp.op \in {"deleteBookmark", "updateBookmark", "syncBookmarks"}
     /\ lastOp.ok)
        => TagsConsistent(bookmarks, tags) /\ TagsConsistent(pBookmarks, pTags)

----------------------------------------------------------------------------
(* SpecRetag: updateTags applied to a bookmark list and a prior tag list   *)
(* drawn from bounded sets.                                                *)

\* Tag names as users type them
TagNames == {"a", "b", "A"}

\* The tag lists a bookmark can carry
TagLists == UNION {[1..n -> TagNames] : n \in 0..MaxTagList}

\* A bookmark carrying the tag list tgs
TaggedRecord(id, tgs) == [LocalRecord EXCEPT !.id = id, !.tags = tgs]

\* Prior tag lists: empty, in use, stale, with a count of 0, with one name twice
PriorTagLists ==
    { <<>>,
      << Tag("g1", "a", 1, 1, 1, FALSE) >>,
      << Tag("g2", "b", 0, 1, 1, FALSE) >>,
      << Tag("g1", "a", 5, 1, 1, FALSE), Tag("g2", "b", 1, 1, 1, TRUE) >>,
      << Tag("g1", "a", 1, 1, 1, FALSE), Tag("g3", "a", 2, 1, 1, FALSE) >>,
      << Tag("g4", "A", 1, 1, 1, FALSE), Tag("g1", "a", 1, 1, 1, FALSE) >> }

InitRetag ==
    /\ hostTree = <<Root>>
    /\ hostSeq = 0
    /\ hostEdits = 0
    /\ \E l1, l2 \in TagLists :
          bookmarks = << TaggedRecord("b1", l1), TaggedRecord("b2", l2) >>
    /\ categories = DefaultCategories(1)
    /\ tags \in PriorTagLists
    /\ lastSyncTime = 2
    /\ pBookmarks = bookmarks
    /\ pCategories = categories
    /\ pTags = tags
    /\ pLastSync = lastSyncTime
    /\ isSyncing = FALSE
    /\ isLoading = FALSE
    /\ now = 3
    /\ uuidSeq = 0
    /\ proc = [add |-> Idle, upd |-> Idle, del |-> Idle, delcat |-> Idle,
               sync |-> Idle, addcat |-> Idle, updcat |-> Idle,
               sync2 |-> Idle, sadd1 |-> Idle, sadd2 |-> Idle,
               sdel |-> Idle, ai |-> Idle, load |-> Idle]
    /\ pass = NoPass
    /\ prevPass = NoPass
    /\ lastOp = NoOp
    /\ listeners = NoListeners

\* updateTags(tagNames) run to its end; lastOp keeps the tag list it started from
Retag ==
    /\ lastOp = NoOp
    /\ LET r == updateTags(tags, bookmarks, now, uuidSeq)
       IN  /\ tags' = r.tags
           /\ pTags' = r.tags
           /\ uuidSeq' = r.uuid
    /\ lastOp' = [op |-> "updateTags", n |-> 1, ok |-> TRUE, prior |-> tags]
    /\ UNCHANGED <<hostVars, listeners, pBookmarks, pCategories, pLastSync, bookmarks,
                   categories, lastSyncTime, isSyncing, isLoading, now, proc, pass,
                   prevPass>>

NextRetag == Retag

SpecRetag == InitRetag /\ [][NextRetag]_vars

\* The number of times name occurs in the tag lists of bms
Occurrences(bms, name) ==
    LET names == AllTagNames(bms)
    IN  Cardinality({k \in 1..Len(names) : names[k] = name})

\* The tag records of tgs named name
RecordsNamed(tgs, name) == {i \in 1..Len(tgs) : tgs[i].name = name}


\* C11: retag result: when updateTags has completed, no tag record has count 0,
\* every tag name in some bookmark's tag list has exactly one tag record, and
\* that record's count is the number of occurrences of the name across all
\* bookmarks' tag lists.
C11_RetagResult ==
    lastOp.op = "updateTags" =>
        /\ \A i \in 1..Len(tags) : tags[i].count # 0
        /\ \A name \in Range(AllTagNames(bookmarks)) :
              /\ Cardinality(RecordsNamed(tags, name)) = 1
              /\ \A i \in RecordsNamed(tags, name) :
                    tags[i].count = Occurrences(bookmarks, name)

\* updateTags has pruned a record, merged two records of one name and counted
\* a name that occurs twice
C11_Witness ==
    /\ lastOp.op = "updateTags"
    /\ Len(lastOp.prior) = 2
    /\ lastOp.prior[1].name = lastOp.prior[2].name
    /\ Len(tags) = 2
    /\ \E i \in 1..Len(tags) : tags[i].count = 2 /\ tags[i].name = "b"

----------------------------------------------------------------------------
(* Tag names                                                               *)

\* String.prototype.toLowerCase on the tag names of the model
toLowerCase(s) ==
    CASE s = "A" -> "a"
      [] s = "T1" -> "t1"
      [] s = "Reading" -> "reading"
      [] s = "News" -> "news"
      [] s = "Site A" -> "site a"
      [] s = "News B" -> "news b"
      [] s = "Site" -> "site"
      [] OTHER -> s

\* No two tag records of tgs have names that are equal ignoring case
NamesUniqueIgnoringCase(tgs) ==
    \A i, j \in 1..Len(tgs) :
        i # j => toLowerCase(tgs[i].name) # toLowerCase(tgs[j].name)

\* C12: tag names are unique case-insensitively: in every reachable state,
\* after any sequence of addBookmark and updateBookmark with arbitrary tag
\* names, no two tag records have names that are equal ignoring case.
C12_TagNamesUniqueIgnoringCase ==
    NamesUniqueIgnoringCase(tags) /\ NamesUniqueIgnoringCase(pTags)

----------------------------------------------------------------------------
(* SpecDeleteCategory: store deleteCategory with addBookmark called while  *)
(* it is suspended at an await.                                            *)

\* deleteCategory stands between two iterations of its loop, or before the
\* first: it goes on in the same turn, before any other call or continuation
LoopPending == proc.delcat.pc = "loop"

NextDeleteCategory ==
    \/ DeleteCategoryCall
    \/ DeleteCategoryLoop
    \/ DeleteCategorySaved
    \/ UpdateBookmarkHosted
    \/ UpdateBookmarkSaved
    \/ UpdateBookmarkCountedOld
    \/ UpdateBookmarkCountedNew
    \/ ~LoopPending /\ AddBookmarkCall
    \/ ~LoopPending /\ AddBookmarkSteps

SpecDeleteCategory == InitStore /\ [][NextDeleteCategory]_vars

\* No record of bms is filed under category id
NoneFiledUnder(bms, id) == \A i \in 1..Len(bms) : bms[i].categoryId # id

\* The records of bms with an id in ids are all filed under 'uncategorized'
AllUncategorized(bms, ids) ==
    \A i \in 1..Len(bms) : bms[i].id \in ids => bms[i].categoryId = "uncategorized"

\* deleteCategory returns true in this step
DeleteCategoryReturnsTrue ==
    /\ lastOp'.n # lastOp.n
    /\ lastOp'.op = "deleteCategory"
    /\ lastOp'.ok

\* C13: deleting a category never leaves a dangling categoryId: when store
\* deleteCategory(id) returns true, the category is gone, no bookmark in the
\* store or in the persisted collection has categoryId = id, and every
\* bookmark that referenced it has categoryId 'uncategorized'; also for a
\* bookmark added while deleteCategory is suspended at an await.
C13_NoDanglingCategoryId ==
    [][DeleteCategoryReturnsTrue =>
          /\ \A i \in 1..Len(categories') : categories'[i].id # lastOp'.id
          /\ NoneFiledUnder(bookmarks', lastOp'.id)
          /\ NoneFiledUnder(pBookmarks', lastOp'.id)
          /\ AllUncategorized(bookmarks', lastOp'.referenced)
          /\ AllUncategorized(pBookmarks', lastOp'.referenced)]_vars

----------------------------------------------------------------------------
(* addCategory and updateCategory of the store                             *)

\* What callers pass to addCategory
AddCategoryInputs ==
    { [name |-> "Sub"], [name |-> "Sub", parentId |-> "c1"] }

\* What callers pass to updateCategory as changes
UpdateCategoryInputs ==
    { [name |-> "Renamed"], [builtin |-> FALSE] }
    \cup { [parentId |-> id] : id \in {"c1", Uuid(1)} }

\* addCategory: const newCategory = { id: uuidv4(), name: category.name || '新分类',
\*   parentId: category.parentId || undefined, order: categories.value.length,
\*   bookmarkCount: 0, createdAt: Date.now(), updatedAt: Date.now(),
\*   isAiGenerated: category.isAiGenerated || false, ...category }
\* builtin is absent, which every test of it reads as false
NewCategoryStore(category, id, order, t) ==
    Spread(Category(id, OrElse(Get(category, "name"), "New category"),
                    OrElse(Get(category, "parentId"), Undef), order, t, t, 0,
                    IF "isAiGenerated" \in DOMAIN category
                    THEN category.isAiGenerated ELSE FALSE,
                    FALSE, Undef),
           category)

\* addCategory up to `await storageService.saveCategories(categories.value)`
AddCategoryCall ==
    /\ proc.addcat.pc = "idle"
    /\ OpsBegun < MaxOps
    /\ uuidSeq < MaxUuid
    /\ \E category \in AddCategoryInputs :
          LET newCategory == NewCategoryStore(category, Uuid(uuidSeq + 1),
                                              Len(categories), now)
          IN  /\ categories' = Append(categories, newCategory)
              /\ pCategories' = categories'
              /\ proc' = [proc EXCEPT !.addcat =
                            [pc |-> "saved", newCategory |-> newCategory]]
    /\ uuidSeq' = uuidSeq + 1
    /\ UNCHANGED <<hostVars, listeners, pBookmarks, pTags, pLastSync, bookmarks, tags,
                   lastSyncTime, isSyncing, isLoading, now, pass, prevPass, lastOp>>

\* messageService.send('category-added', newCategory); return newCategory
AddCategorySaved ==
    /\ proc.addcat.pc = "saved"
    /\ proc' = [proc EXCEPT !.addcat = Idle]
    /\ lastOp' = Done("addCategory", TRUE)
    /\ UNCHANGED <<hostVars, listeners, persVars, storeVars, now, uuidSeq, pass, prevPass>>

\* updateCategory(id, changes) up to `await storageService.saveCategories(...)`:
\* const updatedCategory = { ...oldCategory, ...changes, updatedAt: Date.now() }
UpdateCategoryCall ==
    /\ proc.updcat.pc = "idle"
    /\ OpsBegun < MaxOps
    /\ \E id \in CategoryIds, changes \in UpdateCategoryInputs :
          LET index == FindIndex(categories, LAMBDA c : c.id = id)
          IN  IF index = 0
              THEN /\ lastOp' = Done("updateCategory", FALSE) @@ [id |-> id]
                   /\ UNCHANGED <<categories, pCategories, proc>>
              ELSE /\ categories' = [categories EXCEPT ![index] =
                          [Spread(categories[index], changes)
                              EXCEPT !.updatedAt = now]]
                   /\ pCategories' = categories'
                   /\ proc' = [proc EXCEPT !.updcat = [pc |-> "saved", id |-> id]]
                   /\ UNCHANGED lastOp
    /\ UNCHANGED <<hostVars, listeners, pBookmarks, pTags, pLastSync, bookmarks, tags,
                   lastSyncTime, isSyncing, isLoading, now, uuidSeq, pass, prevPass>>

\* messageService.send('category-updated', updatedCategory); return true
UpdateCategorySaved ==
    /\ proc.updcat.pc = "saved"
    /\ proc' = [proc EXCEPT !.updcat = Idle]
    /\ lastOp' = Done("updateCategory", TRUE) @@ [id |-> proc.updcat.id]
    /\ UNCHANGED <<hostVars, listeners, persVars, storeVars, now, uuidSeq, pass, prevPass>>

\* SpecCategories: the store's category calls made one at a time
NextCategories ==
    \/ AllIdle /\ AddCategoryCall
    \/ AllIdle /\ UpdateCategoryCall
    \/ AllIdle /\ DeleteCategoryCall
    \/ AddCategorySaved
    \/ UpdateCategorySaved
    \/ DeleteCategoryLoop
    \/ DeleteCategorySaved
    \/ UpdateBookmarkHosted
    \/ UpdateBookmarkSaved
    \/ UpdateBookmarkCountedOld
    \/ UpdateBookmarkCountedNew

SpecCategories == InitStore /\ [][NextCategories]_vars

----------------------------------------------------------------------------
(* Properties of the categories                                            *)

\* all, frequent, recent, uncategorized
BuiltinIds == {DEFAULT_CATEGORIES[i].id : i \in 1..Len(DEFAULT_CATEGORIES)}

\* The ids of the categories of cats
IdsOf(cats) == {cats[i].id : i \in 1..Len(cats)}

\* The category of cats with this id
CategoryById(cats, id) == cats[FindIndex(cats, LAMBDA c : c.id = id)]

\* deleteCategory returns in this step from a call on a builtin or unknown id
DeleteOfBuiltinReturns ==
    /\ lastOp'.n # lastOp.n
    /\ lastOp'.op = "deleteCategory"
    /\ lastOp'.id \in BuiltinIds \cup {"missing"}

\* C14: builtin categories are never deleted: in every reachable state the
\* four builtin categories are present in the store, and deleteCategory(id) on
\* a builtin category (all, frequent, recent, uncategorized) or on an unknown
\* id returns false and leaves categories, bookmarks and the persisted
\* collections unchanged.
C14_BuiltinNeverDeleted ==
    /\ [](BuiltinIds \subseteq IdsOf(categories))
    /\ [][DeleteOfBuiltinReturns =>
             /\ ~lastOp'.ok
             /\ UNCHANGED <<categories, bookmarks, persVars>>]_vars

\* C15: builtin categories are never reparented or edited: no store operation
\* changes the parentId, the name or the builtin flag of a builtin category.
C15_BuiltinNeverEdited ==
    [][\A id \in BuiltinIds \cap IdsOf(categories) \cap IdsOf(categories') :
          /\ CategoryById(categories', id).parentId = CategoryById(categories, id).parentId
          /\ CategoryById(categories', id).name = CategoryById(categories, id).name
          /\ CategoryById(categories', id).builtin = CategoryById(categories, id).builtin]_vars

\* Following parentId from category id comes back to a category already seen
RECURSIVE OnCycle(_, _, _)
OnCycle(cats, id, seen) ==
    IF id \in seen THEN TRUE
    ELSE IF id \notin IdsOf(cats) THEN FALSE
    ELSE IF CategoryById(cats, id).parentId = Undef THEN FALSE
    ELSE OnCycle(cats, CategoryById(cats, id).parentId, seen \cup {id})

\* C16: category forest invariant: in every state reachable by addCategory,
\* updateCategory and deleteCategory, following parentId from a non-builtin
\* category never revisits a category: there is no cycle and no category is
\* its own ancestor.
C16_CategoryForest ==
    \A i \in 1..Len(categories) :
        categories[i].builtin = FALSE => ~OnCycle(categories, categories[i].id, {})

----------------------------------------------------------------------------
(* SpecReentrant: store syncBookmarks called again while a pass is in      *)
(* flight.                                                                 *)

\* syncBookmarks() called while the call of proc.sync is suspended at an await:
\* if (isSyncing.value) return false; otherwise isSyncing.value = true and a
\* second pass starts with `await browser.bookmarks.getTree()`
ReentrantSyncCall ==
    /\ proc.sync.pc # "idle"
    /\ proc.sync2.pc = "idle"
    /\ OpsBegun < MaxOps
    /\ IF SyncGuard(isSyncing)
       THEN /\ lastOp' = Done("syncBookmarks", FALSE) @@ [reentrant |-> TRUE]
            /\ UNCHANGED <<isSyncing, isLoading, proc>>
       ELSE /\ isSyncing' = TRUE
            /\ UNCHANGED isLoading
            /\ proc' = [proc EXCEPT !.sync2 = [pc |-> "getTree"]]
            /\ UNCHANGED lastOp
    /\ UNCHANGED <<hostVars, listeners, persVars, bookmarks, categories, tags,
                   lastSyncTime, now, uuidSeq, pass, prevPass>>

NextReentrant ==
    \/ SyncBookmarksCall
    \/ SyncBookmarksSteps
    \/ ReentrantSyncCall
    \/ HostRemove
    \/ Tick

SpecReentrant == InitStore /\ [][NextReentrant]_vars

\* The sync passes in flight
PassesInFlight == {k \in {"sync", "sync2"} : proc[k].pc # "idle"}

\* A syncBookmarks call is turned away in this step
SyncCallRejected ==
    /\ lastOp'.n # lastOp.n
    /\ lastOp'.op = "syncBookmarks"
    /\ ~lastOp'.ok

\* C17: reentrancy guard: at most one sync pass started through store
\* syncBookmarks is in flight at any time and isSyncing is true while it is; a
\* syncBookmarks call made while isSyncing is true returns false at once,
\* changes neither the persisted collections nor the store, and leaves
\* isSyncing true.
C17_ReentrancyGuard ==
    /\ [](Cardinality(PassesInFlight) <= 1)
    /\ [](PassesInFlight # {} => isSyncing)
    /\ [][SyncCallRejected =>
             /\ isSyncing /\ isSyncing'
             /\ UNCHANGED <<hostVars, listeners, persVars, bookmarks, categories, tags,
                            lastSyncTime, proc>>]_vars

\* A call has been turned away while the pass in flight had saved its bookmarks
\* and not yet its categories
C17_Witness ==
    /\ lastOp.op = "syncBookmarks"
    /\ ~lastOp.ok
    /\ proc.sync.pc = "savedBookmarks"
    /\ isSyncing

----------------------------------------------------------------------------
(* SpecHostDown: sync passes whose `await browser.bookmarks.getTree()`     *)
(* does not deliver a tree.                                                *)

\* What getTree() does when the browser has no tree to give: the promise is
\* rejected, or it resolves with undefined, or with an empty array
HostReadOutcomes == {"throws", "undefined", "empty"}

\* The persisted collections and the store's fields a sync pass may change
Snapshot ==
    [pBookmarks |-> pBookmarks, pCategories |-> pCategories,
     pLastSync |-> pLastSync, bookmarks |-> bookmarks,
     categories |-> categories, lastSyncTime |-> lastSyncTime]

\* The pass whose host read gave outcome o: who ran it, the number of the
\* call it belongs to, and the data before it
FailedRead(impl, o, op) ==
    [impl |-> impl, n |-> pass.n + 1, hostRead |-> o, op |-> op,
     before |-> Snapshot]

\* part_003 syncBookmarks: a rejected getTree, and the TypeError of
\* `nodes.forEach` on undefined, are caught and the pass returns false; an
\* empty array is flattened to no browser bookmarks and the pass goes on to
\* convert, save and return true
ServiceSyncAHostDown ==
    /\ AllIdle
    /\ pass.n < MaxPasses
    /\ \E o \in HostReadOutcomes :
         IF o = "empty"
         THEN LET r == convertBrowserBookmarks(flattenBookmarkTree(<<>>),
                           pBookmarks, pCategories, now, uuidSeq)
              IN  /\ r.uuid <= MaxUuid
                  /\ pBookmarks' = r.bookmarks
                  /\ pCategories' = r.categories
                  /\ pLastSync' = now
                  /\ uuidSeq' = r.uuid
                  /\ pass' = FailedRead("A", o, lastOp.n) @@ [ok |-> TRUE]
         ELSE /\ pass' = FailedRead("A", o, lastOp.n) @@ [ok |-> FALSE]
              /\ UNCHANGED <<pBookmarks, pCategories, pLastSync, uuidSeq>>
    /\ prevPass' = pass
    /\ UNCHANGED <<hostVars, listeners, pTags, storeVars, now, proc, lastOp>>

\* services/bookmark.ts syncBookmarks: a rejected getTree is rethrown by the
\* catch; `if (!rootNode || rootNode.length === 0) throw new Error(...)` turns
\* undefined and the empty array into the same rejection
ServiceSyncBHostDown ==
    /\ AllIdle
    /\ pass.n < MaxPasses
    /\ \E o \in HostReadOutcomes :
         pass' = FailedRead("B", o, lastOp.n) @@ [ok |-> FALSE]
    /\ prevPass' = pass
    /\ UNCHANGED <<hostVars, listeners, persVars, storeVars, now, uuidSeq, proc, lastOp>>

\* Store syncBookmarks, getTree rejected or resolved with undefined: the
\* service returns false; `if (success)` is skipped; return success;
\* finally isSyncing.value = false
SyncTreeFailed ==
    /\ proc.sync.pc = "getTree"
    /\ pass.n < MaxPasses
    /\ \E o \in {"throws", "undefined"} :
         pass' = FailedRead("store", o, lastOp.n + 1)
    /\ prevPass' = pass
    /\ isSyncing' = FALSE
    /\ UNCHANGED isLoading
    /\ proc' = [proc EXCEPT !.sync = Idle]
    /\ lastOp' = Done("syncBookmarks", FALSE) @@ [sent |-> <<>>]
    /\ UNCHANGED <<hostVars, listeners, persVars, bookmarks, categories, tags,
                   lastSyncTime, now, uuidSeq>>

\* Store syncBookmarks, getTree resolved with an empty array:
\* const browserBookmarks = this.flattenBookmarkTree([]);
\* const storedBookmarks = await storageService.getBookmarks()
SyncGotNoTree ==
    /\ proc.sync.pc = "getTree"
    /\ pass.n < MaxPasses
    /\ pass' = FailedRead("store", "empty", lastOp.n + 1)
    /\ prevPass' = pass
    /\ proc' = [proc EXCEPT !.sync =
                  [pc |-> "getBookmarks",
                   browserBookmarks |-> flattenBookmarkTree(<<>>)]]
    /\ UNCHANGED <<hostVars, listeners, persVars, storeVars, now, uuidSeq, lastOp>>

NextHostDown ==
    \/ AllIdle /\ SyncBookmarksCall
    \/ SyncBookmarksSteps
    \/ SyncTreeFailed
    \/ SyncGotNoTree
    \/ ServiceSyncAHostDown
    \/ ServiceSyncBHostDown
    \/ AllIdle /\ HostRemove
    \/ AllIdle /\ Tick

SpecHostDown == InitStore /\ [][NextHostDown]_vars

\* The last pass begun got no tree from the browser, and the call it belongs
\* to has returned and nothing has been called since
HostReadFailed ==
    /\ "hostRead" \in DOMAIN pass
    /\ AllIdle
    /\ lastOp.n = pass.op

\* The pass was reported to its caller as failed, and nothing was published
ReportedFailed ==
    IF pass.impl = "store"
    THEN ~lastOp.ok /\ lastOp.sent = <<>>
    ELSE ~pass.ok

\* C18: when the read of the host bookmark tree fails (the promise is rejected
\* or brings no tree), the sync pass is reported to its caller as failed, no
\* 'bookmarks-updated' message is published, and the persisted bookmarks,
\* categories and last-sync time and the store's bookmarks, categories and
\* lastSyncTime are what they were before the call.
C18_HostUnavailable ==
    HostReadFailed => ReportedFailed /\ Snapshot = pass.before

----------------------------------------------------------------------------
(* SpecWriteFail: sync passes in which one of the three writes             *)
(* (saveBookmarks, saveCategories, saveLastSyncTime) is rejected.          *)
(* StorageService.save* log the error and rethrow it.                      *)

SaveCalls == <<"saveBookmarks", "saveCategories", "saveLastSyncTime">>

\* The position of a save call in the order the pass makes them
SaveOrder(w) == CHOOSE i \in 1..Len(SaveCalls) : SaveCalls[i] = w

\* The pass in which write w was rejected, and the data before the pass
FailedWrite(impl, w, op) ==
    [impl |-> impl, n |-> pass.n + 1, writeFailed |-> w, op |-> op,
     before |-> Snapshot]

\* The writes a pass has made when its write w is rejected: those before w
WritesBefore(w, r) ==
    /\ pBookmarks' = IF SaveOrder(w) > 1 THEN r.bookmarks ELSE pBookmarks
    /\ pCategories' = IF SaveOrder(w) > 2 THEN r.categories ELSE pCategories
    /\ UNCHANGED pLastSync

\* part_003 syncBookmarks with a rejected write: the writes before it stay, the
\* catch logs and returns false
ServiceSyncAWriteFailed ==
    /\ AllIdle
    /\ pass.n < MaxPasses
    /\ LET r == convertBrowserBookmarks(flattenBookmarkTree(hostTree),
                                        pBookmarks, pCategories, now, uuidSeq)
       IN  /\ r.uuid <= MaxUuid
           /\ uuidSeq' = r.uuid
           /\ \E w \in Range(SaveCalls) :
                /\ WritesBefore(w, r)
                /\ pass' = FailedWrite("A", w, lastOp.n)
    /\ prevPass' = pass
    /\ UNCHANGED <<hostVars, listeners, pTags, storeVars, now, proc, lastOp>>

\* services/bookmark.ts syncBookmarks with a rejected write: the writes before
\* it stay, the catch logs and rethrows
ServiceSyncBWriteFailed ==
    /\ AllIdle
    /\ pass.n < MaxPasses
    /\ Len(Children(hostTree, Undef)) > 0
    /\ LET r == syncBookmarksB(hostTree, pBookmarks, pCategories, now, uuidSeq)
       IN  /\ r.uuid <= MaxUuid
           /\ uuidSeq' = r.uuid
           /\ \E w \in Range(SaveCalls) :
                /\ WritesBefore(w, r)
                /\ pass' = FailedWrite("B", w, lastOp.n)
    /\ prevPass' = pass
    /\ UNCHANGED <<hostVars, listeners, pTags, storeVars, now, proc, lastOp>>

\* The service's catch returns false; the store skips `if (success)`, returns
\* success, and its finally sets isSyncing.value = false
SyncServiceFailed(w, before) ==
    /\ pass.n < MaxPasses
    /\ pass' = [FailedWrite("store", w, lastOp.n + 1) EXCEPT !.before = before]
    /\ prevPass' = pass
    /\ isSyncing' = FALSE
    /\ UNCHANGED isLoading
    /\ proc' = [proc EXCEPT !.sync = Idle]
    /\ lastOp' = Done("syncBookmarks", FALSE) @@ [sent |-> <<>>]
    /\ UNCHANGED <<hostVars, listeners, persVars, bookmarks, categories, tags,
                   lastSyncTime, now>>

\* Store syncBookmarks: convertBrowserBookmarks(...), then
\* `await storageService.saveBookmarks(bookmarks)` is rejected
SyncSaveBookmarksFailed ==
    /\ proc.sync.pc = "getCategories"
    /\ LET r == convertBrowserBookmarks(proc.sync.browserBookmarks,
                    proc.sync.storedBookmarks, pCategories, now, uuidSeq)
       IN  /\ r.uuid <= MaxUuid
           /\ uuidSeq' = r.uuid
    /\ SyncServiceFailed("saveBookmarks", Snapshot)

\* Store syncBookmarks: saveBookmarks has resolved, then
\* `await storageService.saveCategories(categories)` is rejected
SyncSaveCategoriesFailed ==
    /\ proc.sync.pc = "savedBookmarks"
    /\ SyncServiceFailed("saveCategories",
           [Snapshot EXCEPT !.pBookmarks = proc.sync.storedBookmarks])
    /\ UNCHANGED uuidSeq

\* Store syncBookmarks: saveCategories has resolved, then
\* `await storageService.saveLastSyncTime(Date.now())` is rejected
SyncSaveLastSyncFailed ==
    /\ proc.sync.pc = "savedCategories"
    /\ SyncServiceFailed("saveLastSyncTime",
           [Snapshot EXCEPT !.pBookmarks = proc.sync.storedBookmarks,
                            !.pCategories = proc.sync.storedCategories])
    /\ UNCHANGED uuidSeq

NextWriteFail ==
    \/ AllIdle /\ SyncBookmarksCall
    \/ SyncBookmarksSteps
    \/ SyncSaveBookmarksFailed
    \/ SyncSaveCategoriesFailed
    \/ SyncSaveLastSyncFailed
    \/ ServiceSyncAWriteFailed
    \/ ServiceSyncBWriteFailed
    \/ AllIdle /\ HostRemove
    \/ AllIdle /\ Tick

SpecWriteFail == InitStore /\ [][NextWriteFail]_vars

\* The last pass begun had a write rejected, the call it belongs to has
\* returned and nothing has been called since
WriteFailed ==
    /\ "writeFailed" \in DOMAIN pass
    /\ AllIdle
    /\ lastOp.n = pass.op

\* C19: no partial write-back: if any persistence write of a sync pass fails,
\* the persisted bookmarks and the persisted categories are both exactly as
\* they were before the pass, and the last-sync time is not written.
C19_NoPartialWriteBack ==
    WriteFailed =>
        /\ pBookmarks = pass.before.pBookmarks
        /\ pCategories = pass.before.pCategories
        /\ pLastSync = pass.before.pLastSync

----------------------------------------------------------------------------
(* SpecReadFail: operations during which browser.storage.local.get is      *)
(* rejected for the bookmarks or for the categories.                       *)

\* StorageService.getBookmarks / getCategories: the stored list, and `[]` from
\* `catch (error) { console.error(...); return [] }` when the read is rejected
GatewayRead(stored, rejected) == IF rejected THEN <<>> ELSE stored

ReadCalls == {"getBookmarks", "getCategories"}

\* The operation in which read g was rejected, and the data before it
FailedGet(impl, g, op) ==
    [impl |-> impl, n |-> pass.n + 1, readFailed |-> g, op |-> op,
     before |-> Snapshot]

\* part_003 syncBookmarks with one of its two reads rejected: the gateway
\* hands it an empty list and the pass converts, saves and returns true
ServiceSyncAReadFailed ==
    /\ AllIdle
    /\ pass.n < MaxPasses
    /\ \E g \in ReadCalls :
         LET r == convertBrowserBookmarks(flattenBookmarkTree(hostTree),
                      GatewayRead(pBookmarks, g = "getBookmarks"),
                      GatewayRead(pCategories, g = "getCategories"),
                      now, uuidSeq)
         IN  /\ r.uuid <= MaxUuid
             /\ pBookmarks' = r.bookmarks
             /\ pCategories' = r.categories
             /\ pLastSync' = now
             /\ uuidSeq' = r.uuid
             /\ pass' = FailedGet("A", g, lastOp.n) @@ [ok |-> TRUE]
    /\ prevPass' = pass
    /\ UNCHANGED <<hostVars, listeners, pTags, storeVars, now, proc, lastOp>>

\* services/bookmark.ts syncBookmarks with one of its two reads rejected: the
\* pass runs on the empty list, saves and resolves
ServiceSyncBReadFailed ==
    /\ AllIdle
    /\ pass.n < MaxPasses
    /\ Len(Children(hostTree, Undef)) > 0
    /\ \E g \in ReadCalls :
         LET r == syncBookmarksB(hostTree,
                      GatewayRead(pBookmarks, g = "getBookmarks"),
                      GatewayRead(pCategories, g = "getCategories"),
                      now, uuidSeq)
         IN  /\ r.uuid <= MaxUuid
             /\ pBookmarks' = r.bookmarks
             /\ pCategories' = r.categories
             /\ pLastSync' = now
             /\ uuidSeq' = r.uuid
             /\ pass' = FailedGet("B", g, lastOp.n) @@ [ok |-> TRUE]
    /\ prevPass' = pass
    /\ UNCHANGED <<hostVars, listeners, pTags, storeVars, now, proc, lastOp>>

\* bookmarkService.addBookmark(bookmark) of services/bookmark.ts with its
\* getBookmarks rejected: updatedBookmarks = [...[], newBookmark] is saved and
\* the new bookmark returned
ServiceAddBookmarkReadFailed ==
    /\ AllIdle
    /\ pass.n < MaxPasses
    /\ OpsBegun < MaxOps
    /\ uuidSeq < MaxUuid
    /\ \E bookmark \in AddInputs :
          LET newBookmark == NewBookmarkService(bookmark, Uuid(uuidSeq + 1), now)
          IN  /\ pCategories' = updateCategoryCount(pCategories,
                                    newBookmark.categoryId, 1, now)
              /\ pBookmarks' = Append(GatewayRead(pBookmarks, TRUE), newBookmark)
    /\ uuidSeq' = uuidSeq + 1
    /\ lastOp' = Done("service.addBookmark", TRUE)
    /\ pass' = FailedGet("B", "getBookmarks", lastOp.n + 1) @@ [ok |-> TRUE]
    /\ prevPass' = pass
    /\ UNCHANGED <<hostVars, listeners, pTags, pLastSync, storeVars, now, proc>>

\* Store syncBookmarks, `await storageService.getBookmarks()` of the service
\* rejected inside the gateway: storedBookmarks is []
SyncGetBookmarksFailed ==
    /\ proc.sync.pc = "getBookmarks"
    /\ pass.n < MaxPasses
    /\ pass' = FailedGet("store", "getBookmarks", lastOp.n + 1)
    /\ prevPass' = pass
    /\ proc' = [proc EXCEPT !.sync =
                  [pc |-> "getCategories",
                   browserBookmarks |-> proc.sync.browserBookmarks,
                   storedBookmarks |-> GatewayRead(pBookmarks, TRUE)]]
    /\ UNCHANGED <<hostVars, listeners, persVars, storeVars, now, uuidSeq, lastOp>>

\* Store syncBookmarks, `await storageService.getCategories()` of the service
\* rejected inside the gateway: storedCategories is []; the pass converts and
\* calls saveBookmarks
SyncGetCategoriesFailed ==
    /\ proc.sync.pc = "getCategories"
    /\ pass.n < MaxPasses
    /\ pass' = FailedGet("store", "getCategories", lastOp.n + 1)
    /\ prevPass' = pass
    /\ LET r == convertBrowserBookmarks(proc.sync.browserBookmarks,
                    proc.sync.storedBookmarks, GatewayRead(pCategories, TRUE),
                    now, uuidSeq)
       IN  /\ r.uuid <= MaxUuid
           /\ uuidSeq' = r.uuid
           /\ pBookmarks' = r.bookmarks
           /\ proc' = [proc EXCEPT !.sync =
                         [pc |-> "savedBookmarks", categories |-> r.categories,
                          storedBookmarks |-> proc.sync.storedBookmarks,
                          storedCategories |-> GatewayRead(pCategories, TRUE)]]
    /\ UNCHANGED <<hostVars, listeners, pCategories, pTags, pLastSync, storeVars, now,
                   lastOp>>

NextReadFail ==
    \/ AllIdle /\ SyncBookmarksCall
    \/ SyncBookmarksSteps
    \/ SyncGetBookmarksFailed
    \/ SyncGetCategoriesFailed
    \/ ServiceSyncAReadFailed
    \/ ServiceSyncBReadFailed
    \/ ServiceAddBookmarkReadFailed
    \/ AllIdle /\ HostRemove
    \/ AllIdle /\ Tick

SpecReadFail == InitStore /\ [][NextReadFail]_vars

\* The last operation recorded had a read rejected, it has returned and
\* nothing has been called since
ReadFailed ==
    /\ "readFailed" \in DOMAIN pass
    /\ AllIdle
    /\ lastOp.n = pass.op

\* The operation was reported to its caller as failed
ReadReportedFailed ==
    IF pass.impl = "store" THEN ~lastOp.ok ELSE ~pass.ok

\* C20: a failed read of the persisted bookmarks or categories is propagated:
\* the sync pass or CRUD operation it happens in fails and writes nothing, so
\* the persisted bookmarks and categories are what they were before it.
C20_ReadFailurePropagated ==
    ReadFailed =>
        /\ ReadReportedFailed
        /\ pBookmarks = pass.before.pBookmarks
        /\ pCategories = pass.before.pCategories

----------------------------------------------------------------------------
(* SpecServiceConc: addBookmark and deleteBookmark of services/bookmark.ts *)
(* step by step between their awaits, with up to two addBookmark calls and *)
(* one deleteBookmark call in flight.  A call that has returned keeps its  *)
(* result in its slot.                                                     *)

ServiceAddCallers == {"sadd1", "sadd2"}

\* The call of slot k has returned
Returned(k) == proc[k].pc = "returned"

\* Calls begun on the service: every slot is used once
ServiceCallsBegun ==
    Cardinality({k \in ServiceAddCallers \cup {"sdel"} : proc[k].pc # "idle"})

\* addBookmark(bookmark): const newBookmark = {...};
\* const existingBookmarks = await storageService.getBookmarks()
ServiceAddCall(k) ==
    /\ proc[k].pc = "idle"
    /\ ServiceCallsBegun < MaxOps
    /\ uuidSeq < MaxUuid
    /\ \E bookmark \in AddInputs :
          proc' = [proc EXCEPT ![k] =
                     [pc |-> "getBookmarks",
                      newBookmark |-> NewBookmarkService(bookmark,
                                          Uuid(uuidSeq + 1), now)]]
    /\ uuidSeq' = uuidSeq + 1
    /\ UNCHANGED <<hostVars, listeners, persVars, storeVars, now, pass, prevPass, lastOp>>

\* const updatedBookmarks = [...existingBookmarks, newBookmark];
\* updateCategoryCount(newBookmark.categoryId, 1) up to
\* `const categories = await storageService.getCategories()`
ServiceAddGotBookmarks(k) ==
    /\ proc[k].pc = "getBookmarks"
    /\ proc' = [proc EXCEPT ![k] =
                  [pc |-> "getCategories", newBookmark |-> proc[k].newBookmark,
                   updatedBookmarks |-> Append(pBookmarks, proc[k].newBookmark)]]
    /\ UNCHANGED <<hostVars, listeners, persVars, storeVars, now, uuidSeq, pass, prevPass,
                   lastOp>>

\* updateCategoryCount: categories[categoryIndex].bookmarkCount += delta;
\* await storageService.saveCategories(categories)
ServiceAddGotCategories(k) ==
    /\ proc[k].pc = "getCategories"
    /\ pCategories' = updateCategoryCount(pCategories,
                          proc[k].newBookmark.categoryId, 1, now)
    /\ proc' = [proc EXCEPT ![k].pc = "savedCategories"]
    /\ UNCHANGED <<hostVars, listeners, pBookmarks, pTags, pLastSync, storeVars, now,
                   uuidSeq, pass, prevPass, lastOp>>

\* await storageService.saveBookmarks(updatedBookmarks)
ServiceAddSavedCategories(k) ==
    /\ proc[k].pc = "savedCategories"
    /\ pBookmarks' = proc[k].updatedBookmarks
    /\ proc' = [proc EXCEPT ![k].pc = "savedBookmarks"]
    /\ UNCHANGED <<hostVars, listeners, pCategories, pTags, pLastSync, storeVars, now,
                   uuidSeq, pass, prevPass, lastOp>>

\* const settings = await storageService.getSettings(); settings.ai.apiKey is
\* '' as in DEFAULT_SETTINGS; return newBookmark
ServiceAddReturn(k) ==
    /\ proc[k].pc = "savedBookmarks"
    /\ proc' = [proc EXCEPT ![k] =
                  [pc |-> "returned", ok |-> TRUE,
                   id |-> proc[k].newBookmark.id]]
    /\ UNCHANGED <<hostVars, listeners, persVars, storeVars, now, uuidSeq, pass, prevPass,
                   lastOp>>

\* deleteBookmark(id): const bookmarks = await storageService.getBookmarks()
ServiceDeleteCall ==
    /\ proc.sdel.pc = "idle"
    /\ ServiceCallsBegun < MaxOps
    /\ \E id \in StoredBookmarkIds :
          proc' = [proc EXCEPT !.sdel = [pc |-> "getBookmarks", id |-> id]]
    /\ UNCHANGED <<hostVars, listeners, persVars, storeVars, now, uuidSeq, pass, prevPass,
                   lastOp>>

\* const bookmarkIndex = bookmarks.findIndex(b => b.id === id);
\* if (bookmarkIndex === -1) return false; updateCategoryCount(..., -1) up to
\* `await storageService.getCategories()`
ServiceDeleteGotBookmarks ==
    /\ proc.sdel.pc = "getBookmarks"
    /\ LET bookmarkIndex ==
               FindIndex(pBookmarks, LAMBDA b : b.id = proc.sdel.id)
       IN  proc' = [proc EXCEPT !.sdel =
                      IF bookmarkIndex = 0
                      THEN [pc |-> "returned", ok |-> FALSE, id |-> proc.sdel.id]
                      ELSE [pc |-> "getCategories", id |-> proc.sdel.id,
                            bookmarks |-> pBookmarks,
                            bookmarkIndex |-> bookmarkIndex]]
    /\ UNCHANGED <<hostVars, listeners, persVars, storeVars, now, uuidSeq, pass, prevPass,
                   lastOp>>

\* updateCategoryCount: categories[categoryIndex].bookmarkCount += delta;
\* await storageService.saveCategories(categories)
ServiceDeleteGotCategories ==
    /\ proc.sdel.pc = "getCategories"
    /\ pCategories' = updateCategoryCount(pCategories,
                          proc.sdel.bookmarks[proc.sdel.bookmarkIndex].categoryId,
                          -1, now)
    /\ proc' = [proc EXCEPT !.sdel.pc = "savedCategories"]
    /\ UNCHANGED <<hostVars, listeners, pBookmarks, pTags, pLastSync, storeVars, now,
                   uuidSeq, pass, prevPass, lastOp>>

\* bookmarks.splice(bookmarkIndex, 1); await storageService.saveBookmarks(bookmarks)
ServiceDeleteSavedCategories ==
    /\ proc.sdel.pc = "savedCategories"
    /\ pBookmarks' = RemoveAt(proc.sdel.bookmarks, proc.sdel.bookmarkIndex)
    /\ proc' = [proc EXCEPT !.sdel.pc = "savedBookmarks"]
    /\ UNCHANGED <<hostVars, listeners, pCategories, pTags, pLastSync, storeVars, now,
                   uuidSeq, pass, prevPass, lastOp>>

\* return true
ServiceDeleteReturn ==
    /\ proc.sdel.pc = "savedBookmarks"
    /\ proc' = [proc EXCEPT !.sdel =
                  [pc |-> "returned", ok |-> TRUE, id |-> proc.sdel.id]]
    /\ UNCHANGED <<hostVars, listeners, persVars, storeVars, now, uuidSeq, pass, prevPass,
                   lastOp>>

NextServiceConc ==
    \/ \E k \in ServiceAddCallers : ServiceAddCall(k)
    \/ \E k \in ServiceAddCallers : ServiceAddGotBookmarks(k)
    \/ \E k \in ServiceAddCallers : ServiceAddGotCategories(k)
    \/ \E k \in ServiceAddCallers : ServiceAddSavedCategories(k)
    \/ \E k \in ServiceAddCallers : ServiceAddReturn(k)
    \/ ServiceDeleteCall
    \/ ServiceDeleteGotBookmarks
    \/ ServiceDeleteGotCategories
    \/ ServiceDeleteSavedCategories
    \/ ServiceDeleteReturn
    \/ Tick

SpecServiceConc == InitStore /\ [][NextServiceConc]_vars

\* No service call is suspended at an await
ServiceQuiet ==
    \A k \in ServiceAddCallers \cup {"sdel"} : proc[k].pc \in {"idle", "returned"}

\* The ids of the persisted bookmarks
PersistedIds == {pBookmarks[i].id : i \in 1..Len(pBookmarks)}

\* C21: no lost updates between concurrent service-level CRUD calls: once the
\* addBookmark and deleteBookmark calls made have all completed successfully,
\* the persisted bookmarks hold every record that was added and no record that
\* was deleted.
C21_NoLostUpdates ==
    ServiceQuiet =>
        /\ \A k \in ServiceAddCallers :
              Returned(k) => proc[k].id \in PersistedIds
        /\ Returned("sdel") /\ proc.sdel.ok => proc.sdel.id \notin PersistedIds

----------------------------------------------------------------------------
(* SpecAnalyze: analyzeBookmark of services/bookmark.ts step by step       *)
(* between its awaits, with one service-level addBookmark, updateBookmark  *)
(* or deleteBookmark made while it waits for the AI service.               *)

\* What aiService.analyzeBookmark resolves with: a failure, or data holding an
\* optional category name and tags; token names the data object, which the
\* bookmark keeps in aiGenerated
AiResults ==
    { [success |-> FALSE],
      [success |-> TRUE,
       data |-> [category |-> Undef, tags |-> <<>>, token |-> "ai1"]],
      [success |-> TRUE,
       data |-> [category |-> "reading", tags |-> <<>>, token |-> "ai2"]],
      [success |-> TRUE,
       data |-> [category |-> "News", tags |-> <<"T1">>, token |-> "ai3"]],
      [success |-> TRUE,
       data |-> [category |-> Undef, tags |-> <<"t2">>, token |-> "ai4"]] }

\* The locals of the analyzeBookmark call with some of them set
AiLocals(changed) == changed @@ proc.ai

\* `for (const tagName of aiResult.data.tags)`: tagMap is keyed by the
\* lower-case name and holds the stored tag records and then the new ones
RECURSIVE AiTagLoop(_, _, _, _, _, _)
AiTagLoop(names, tgs, newTags, bookmarkTags, t, u) ==
    IF names = <<>>
    THEN [tags |-> tgs, newTags |-> newTags, bookmarkTags |-> bookmarkTags,
          uuid |-> u]
    ELSE LET tagName == Head(names)
             normTagName == toLowerCase(tagName)
             j == FindLastIndex(newTags,
                      LAMBDA g : toLowerCase(g.name) = normTagName)
             i == FindLastIndex(tgs,
                      LAMBDA g : toLowerCase(g.name) = normTagName)
         IN  IF j # 0
             THEN AiTagLoop(Tail(names), tgs,
                      [newTags EXCEPT ![j].count = @ + 1, ![j].updatedAt = t],
                      Append(bookmarkTags, newTags[j].id), t, u)
             ELSE IF i # 0
             THEN AiTagLoop(Tail(names),
                      [tgs EXCEPT ![i].count = @ + 1, ![i].updatedAt = t],
                      newTags, Append(bookmarkTags, tgs[i].id), t, u)
             ELSE AiTagLoop(Tail(names), tgs,
                      Append(newTags, Tag(Uuid(u + 1), tagName, 1, t, t, TRUE)),
                      Append(bookmarkTags, Uuid(u + 1)), t, u + 1)

\* analyzeBookmark(id): const bookmarks = await storageService.getBookmarks()
AnalyzeCall ==
    /\ proc.ai.pc = "idle"
    /\ OpsBegun < MaxOps
    /\ \E id \in StoredBookmarkIds :
          proc' = [proc EXCEPT !.ai = [pc |-> "getBookmarks", id |-> id]]
    /\ UNCHANGED <<hostVars, listeners, persVars, storeVars, now, uuidSeq, pass, prevPass,
                   lastOp>>

\* catch (error) { console.error(...); return null }
AnalyzeReturnsNull ==
    /\ proc' = [proc EXCEPT !.ai = Idle]
    /\ lastOp' = Done("service.analyzeBookmark", FALSE)

\* if (bookmarkIndex === -1) throw ...; const settings = await getSettings();
\* const aiResult = await aiService.analyzeBookmark({...})
AnalyzeGotBookmarks ==
    /\ proc.ai.pc = "getBookmarks"
    /\ LET bookmarkIndex == FindIndex(pBookmarks, LAMBDA b : b.id = proc.ai.id)
       IN  IF bookmarkIndex = 0
           THEN AnalyzeReturnsNull
           ELSE /\ proc' = [proc EXCEPT !.ai =
                              [pc |-> "ai", id |-> proc.ai.id,
                               bookmarks |-> pBookmarks,
                               bookmarkIndex |-> bookmarkIndex]]
                /\ UNCHANGED lastOp
    /\ UNCHANGED <<hostVars, listeners, persVars, storeVars, now, uuidSeq, pass, prevPass>>

\* `if (aiResult.data?.tags && aiResult.data.tags.length > 0)` up to
\* `await storageService.getTags()`, or else bookmarks[bookmarkIndex] =
\* updatedBookmark; await storageService.saveBookmarks(bookmarks)
AnalyzeTagsOrSave(updatedBookmark, data) ==
    IF Len(data.tags) > 0
    THEN /\ proc' = [proc EXCEPT !.ai =
                       AiLocals([pc |-> "getTags",
                                 updatedBookmark |-> updatedBookmark,
                                 data |-> data])]
         /\ UNCHANGED pBookmarks
    ELSE /\ proc' = [proc EXCEPT !.ai =
                       AiLocals([pc |-> "savedBookmarks",
                                 updatedBookmark |-> updatedBookmark,
                                 data |-> data])]
         /\ pBookmarks' = [proc.ai.bookmarks EXCEPT
                             ![proc.ai.bookmarkIndex] = updatedBookmark]

\* if (!aiResult.success) throw ...; const updatedBookmark = {...bookmark,
\* aiGenerated: aiResult.data, updatedAt: Date.now()}; the category branch up
\* to `const categories = await storageService.getCategories()`
AnalyzeGotResult ==
    /\ proc.ai.pc = "ai"
    /\ \E aiResult \in AiResults :
          IF ~aiResult.success
          THEN AnalyzeReturnsNull /\ UNCHANGED pBookmarks
          ELSE LET bookmark == proc.ai.bookmarks[proc.ai.bookmarkIndex]
                   updatedBookmark ==
                       [bookmark EXCEPT !.aiGenerated = aiResult.data.token,
                                        !.updatedAt = now]
               IN  /\ IF ~Falsy(aiResult.data.category)
                         /\ updatedBookmark.categoryId = "uncategorized"
                      THEN /\ proc' = [proc EXCEPT !.ai =
                                         AiLocals([pc |-> "getCategories",
                                             updatedBookmark |-> updatedBookmark,
                                             data |-> aiResult.data])]
                           /\ UNCHANGED pBookmarks
                      ELSE AnalyzeTagsOrSave(updatedBookmark, aiResult.data)
                   /\ UNCHANGED lastOp
    /\ UNCHANGED <<hostVars, listeners, pCategories, pTags, pLastSync, storeVars, now,
                   uuidSeq, pass, prevPass>>

\* const existingCategory = categories.find(c => c.name.toLowerCase() === ...);
\* found: categoryId = existingCategory.id, and updateCategoryCount(
\* 'uncategorized', -1) up to its getCategories; otherwise
\* await storageService.saveCategories([...categories, newCategory])
AnalyzeGotCategories ==
    /\ proc.ai.pc = "getCategories"
    /\ uuidSeq < MaxUuid
    /\ LET existingCategory ==
               FindIndex(pCategories,
                   LAMBDA c : toLowerCase(c.name)
                                  = toLowerCase(proc.ai.data.category))
           newCategory ==
               Category(Uuid(uuidSeq + 1), proc.ai.data.category, Undef,
                        Len(pCategories), now, now, 1, TRUE, FALSE, Undef)
       IN  IF existingCategory # 0
           THEN /\ proc' = [proc EXCEPT !.ai =
                              AiLocals([pc |-> "count1",
                                  categoryId |-> pCategories[existingCategory].id])]
                /\ UNCHANGED <<pCategories, uuidSeq>>
           ELSE /\ pCategories' = Append(pCategories, newCategory)
                /\ uuidSeq' = uuidSeq + 1
                /\ proc' = [proc EXCEPT !.ai =
                              AiLocals([pc |-> "savedCategory",
                                        categoryId |-> newCategory.id])]
    /\ UNCHANGED <<hostVars, listeners, pBookmarks, pTags, pLastSync, storeVars, now, pass,
                   prevPass, lastOp>>

\* categoryId = newCategory.id; updatedBookmark.categoryId = categoryId;
\* updateCategoryCount('uncategorized', -1) up to its getCategories
AnalyzeSavedCategory ==
    /\ proc.ai.pc = "savedCategory"
    /\ proc' = [proc EXCEPT !.ai = AiLocals([pc |-> "count1"])]
    /\ UNCHANGED <<hostVars, listeners, persVars, storeVars, now, uuidSeq, pass, prevPass,
                   lastOp>>

\* updateCategoryCount('uncategorized', -1):
\* categories[categoryIndex].bookmarkCount += delta; saveCategories(categories)
AnalyzeCountOld ==
    /\ proc.ai.pc = "count1"
    /\ pCategories' = updateCategoryCount(pCategories, "uncategorized", -1, now)
    /\ proc' = [proc EXCEPT !.ai = AiLocals([pc |-> "count1saved"])]
    /\ UNCHANGED <<hostVars, listeners, pBookmarks, pTags, pLastSync, storeVars, now,
                   uuidSeq, pass, prevPass, lastOp>>

\* updateCategoryCount(categoryId, 1) up to its getCategories
AnalyzeCountedOld ==
    /\ proc.ai.pc = "count1saved"
    /\ proc' = [proc EXCEPT !.ai = AiLocals([pc |-> "count2"])]
    /\ UNCHANGED <<hostVars, listeners, persVars, storeVars, now, uuidSeq, pass, prevPass,
                   lastOp>>

\* updateCategoryCount(categoryId, 1):
\* categories[categoryIndex].bookmarkCount += delta; saveCategories(categories)
AnalyzeCountNew ==
    /\ proc.ai.pc = "count2"
    /\ pCategories' = updateCategoryCount(pCategories, proc.ai.categoryId, 1, now)
    /\ proc' = [proc EXCEPT !.ai = AiLocals([pc |-> "count2saved"])]
    /\ UNCHANGED <<hostVars, listeners, pBookmarks, pTags, pLastSync, storeVars, now,
                   uuidSeq, pass, prevPass, lastOp>>

\* The category branch is done (updatedBookmark.categoryId = categoryId); on to
\* the tags branch or the save
AnalyzeCountedNew ==
    /\ proc.ai.pc = "count2saved"
    /\ AnalyzeTagsOrSave([proc.ai.updatedBookmark EXCEPT
                            !.categoryId = proc.ai.categoryId], proc.ai.data)
    /\ UNCHANGED <<hostVars, listeners, pCategories, pTags, pLastSync, storeVars, now,
                   uuidSeq, pass, prevPass, lastOp>>

\* The tag loop; await storageService.saveTags([...tags, ...newTags])
AnalyzeGotTags ==
    /\ proc.ai.pc = "getTags"
    /\ LET r == AiTagLoop(proc.ai.data.tags, pTags, <<>>, <<>>, now, uuidSeq)
       IN  /\ r.uuid <= MaxUuid
           /\ uuidSeq' = r.uuid
           /\ pTags' = r.tags \o r.newTags
           /\ proc' = [proc EXCEPT !.ai =
                         AiLocals([pc |-> "savedTags",
                                   bookmarkTags |-> r.bookmarkTags])]
    /\ UNCHANGED <<hostVars, listeners, pBookmarks, pCategories, pLastSync, storeVars,
                   now, pass, prevPass, lastOp>>

\* updatedBookmark.tags = bookmarkTags; bookmarks[bookmarkIndex] =
\* updatedBookmark; await storageService.saveBookmarks(bookmarks)
AnalyzeSavedTags ==
    /\ proc.ai.pc = "savedTags"
    /\ pBookmarks' = [proc.ai.bookmarks EXCEPT ![proc.ai.bookmarkIndex] =
                        [proc.ai.updatedBookmark EXCEPT
                           !.tags = proc.ai.bookmarkTags]]
    /\ proc' = [proc EXCEPT !.ai = AiLocals([pc |-> "savedBookmarks"])]
    /\ UNCHANGED <<hostVars, listeners, pCategories, pTags, pLastSync, storeVars, now,
                   uuidSeq, pass, prevPass, lastOp>>

\* return updatedBookmark
AnalyzeReturn ==
    /\ proc.ai.pc = "savedBookmarks"
    /\ proc' = [proc EXCEPT !.ai = Idle]
    /\ lastOp' = Done("service.analyzeBookmark", TRUE)
                 @@ [id |-> proc.ai.id]
    /\ UNCHANGED <<hostVars, listeners, persVars, storeVars, now, uuidSeq, pass, prevPass>>

\* analyzeBookmark is suspended at `await aiService.analyzeBookmark(...)`
WaitingForAi == proc.ai.pc = "ai"

NextAnalyze ==
    \/ AnalyzeCall
    \/ AnalyzeGotBookmarks
    \/ AnalyzeGotResult
    \/ AnalyzeGotCategories
    \/ AnalyzeSavedCategory
    \/ AnalyzeCountOld
    \/ AnalyzeCountedOld
    \/ AnalyzeCountNew
    \/ AnalyzeCountedNew
    \/ AnalyzeGotTags
    \/ AnalyzeSavedTags
    \/ AnalyzeReturn
    \/ WaitingForAi /\ ServiceAddBookmark
    \/ WaitingForAi /\ ServiceUpdateBookmark
    \/ WaitingForAi /\ ServiceDeleteBookmark
    \/ AllIdle /\ Tick

SpecAnalyze == InitStore /\ [][NextAnalyze]_vars

\* This step is analyzeBookmark's `await storageService.saveBookmarks(bookmarks)`
AnalyzeWritesBack ==
    /\ proc.ai.pc \notin {"idle", "savedBookmarks"}
    /\ proc'.ai.pc = "savedBookmarks"

\* The persisted bookmark with this id
PersistedById(bms, id) == bms[FindIndex(bms, LAMBDA b : b.id = id)]

\* C22: background AI enrichment does not clobber edits made (and persisted)
\* while analyzeBookmark waited for the AI service: when it writes the
\* bookmarks back, every persisted record other than the analysed one is kept
\* as it is, no record is added to or removed from the persisted collection (an
\* added record stays, a deleted one stays deleted), and the analysed record
\* keeps its persisted title.
C22_AiKeepsConcurrentEdits ==
    [][AnalyzeWritesBack =>
         /\ {b.id : b \in Range(pBookmarks')} = PersistedIds
         /\ \A b \in Range(pBookmarks) :
               b.id # proc.ai.id => PersistedById(pBookmarks', b.id) = b
         /\ proc.ai.id \in PersistedIds =>
               PersistedById(pBookmarks', proc.ai.id).title
                   = PersistedById(pBookmarks, proc.ai.id).title]_vars

----------------------------------------------------------------------------
(* SpecHostFail: store addBookmark, updateBookmark and deleteBookmark in   *)
(* which the call to the browser (create, update, remove) is rejected.     *)
(* The service's passthroughs log and rethrow (part_003:263-305).          *)

\* Faulty variant: only the failure of create is caught where it happens
CaughtForCreateOnly(call) == call = "create"

\* The browser calls the store wraps in their own try / catch, which logs
\* and lets the operation go on
CaughtInPlace(call) == call \in {"create", "update", "remove"}

\* The store call in which the browser call was rejected
FailedHostCall(call, id, changes) ==
    [impl |-> "store", n |-> pass.n + 1, hostFailed |-> call,
     op |-> lastOp.n + 1, id |-> id, changes |-> changes]

\* The outer catch of a store operation: log, return null / false
OuterCatch(op) ==
    /\ lastOp' = Done(op, FALSE) @@ [sent |-> <<>>]
    /\ UNCHANGED proc

\* addBookmark with `await bookmarkService.addBookmarkToBrowser(newBookmark)`
\* rejected: newBookmark keeps no originalId
AddBookmarkHostFailed ==
    /\ AllIdle
    /\ OpsBegun < MaxOps
    /\ pass.n < MaxPasses
    /\ uuidSeq < MaxUuid
    /\ \E bookmark \in AddInputs :
          LET newBookmark == NewBookmarkStore(bookmark, Uuid(uuidSeq + 1), now)
          IN  /\ pass' = FailedHostCall("create", newBookmark.id, bookmark)
              /\ IF CaughtInPlace("create")
                 THEN /\ proc' = [proc EXCEPT !.add =
                                    [pc |-> "created", newBookmark |-> newBookmark,
                                     browserId |-> Undef]]
                      /\ UNCHANGED lastOp
                 ELSE OuterCatch("addBookmark")
    /\ uuidSeq' = uuidSeq + 1
    /\ prevPass' = pass
    /\ UNCHANGED <<hostVars, listeners, persVars, storeVars, now>>

\* updateBookmark with `await bookmarkService.updateBookmarkInBrowser(...)`
\* rejected
UpdateBookmarkHostFailed ==
    /\ AllIdle
    /\ OpsBegun < MaxOps
    /\ pass.n < MaxPasses
    /\ \E id \in BookmarkIds, changes \in UpdateInputs :
          LET index == FindIndex(bookmarks, LAMBDA b : b.id = id)
              oldBookmark == bookmarks[index]
              updatedBookmark ==
                  [Spread(oldBookmark, changes) EXCEPT !.updatedAt = now]
          IN  /\ index # 0
              /\ updatedBookmark.originalId # Undef
              /\ pass' = FailedHostCall("update", id, changes)
              /\ IF CaughtInPlace("update")
                 THEN /\ proc' = [proc EXCEPT !.upd =
                                    [pc |-> "hosted", index |-> index,
                                     oldBookmark |-> oldBookmark,
                                     updatedBookmark |-> updatedBookmark,
                                     caller |-> "user"]]
                      /\ UNCHANGED lastOp
                 ELSE OuterCatch("updateBookmark")
    /\ prevPass' = pass
    /\ UNCHANGED <<hostVars, listeners, persVars, storeVars, now, uuidSeq>>

\* deleteBookmark with `await bookmarkService.removeBookmarkFromBrowser(...)`
\* rejected
DeleteBookmarkHostFailed ==
    /\ AllIdle
    /\ OpsBegun < MaxOps
    /\ pass.n < MaxPasses
    /\ \E id \in BookmarkIds :
          LET index == FindIndex(bookmarks, LAMBDA b : b.id = id)
          IN  /\ index # 0
              /\ bookmarks[index].originalId # Undef
              /\ pass' = FailedHostCall("remove", id, <<>>)
              /\ IF CaughtInPlace("remove")
                 THEN /\ proc' = [proc EXCEPT !.del =
                                    [pc |-> "removed", index |-> index,
                                     bookmark |-> bookmarks[index]]]
                      /\ UNCHANGED lastOp
                 ELSE OuterCatch("deleteBookmark")
    /\ prevPass' = pass
    /\ UNCHANGED <<hostVars, listeners, persVars, storeVars, now, uuidSeq>>

NextHostFail ==
    \/ AddBookmarkHostFailed
    \/ UpdateBookmarkHostFailed
    \/ DeleteBookmarkHostFailed
    \/ AllIdle /\ AddBookmarkCall
    \/ AllIdle /\ UpdateBookmarkCall
    \/ AllIdle /\ DeleteBookmarkCall
    \/ AddBookmarkSteps
    \/ UpdateBookmarkSteps
    \/ DeleteBookmarkSteps
    \/ AllIdle /\ Tick

SpecHostFail == InitStore /\ [][NextHostFail]_vars

\* The last store call made had its browser call rejected, and has returned
HostCallFailed ==
    /\ "hostFailed" \in DOMAIN pass
    /\ AllIdle
    /\ lastOp.n = pass.op

\* The record with this id is in the list with the given fields
HoldsWith(bms, id, fields) ==
    \E b \in Range(bms) :
        b.id = id /\ \A f \in DOMAIN fields : b[f] = fields[f]

\* The effect of the operation is in the store and in persistence
HostlessEffect ==
    CASE pass.hostFailed = "create" ->
             /\ HoldsWith(bookmarks, pass.id, pass.changes @@ [originalId |-> Undef])
             /\ lastOp.sent = <<"bookmark-added">>
      [] pass.hostFailed = "update" ->
             /\ HoldsWith(bookmarks, pass.id, pass.changes)
             /\ lastOp.sent = <<"bookmark-updated">>
      [] pass.hostFailed = "remove" ->
             /\ pass.id \notin {b.id : b \in Range(bookmarks)}
             /\ lastOp.sent = <<"bookmark-deleted">>

\* C23: host mutation passthroughs are best-effort: when the browser's create,
\* update or remove is rejected inside store addBookmark, updateBookmark or
\* deleteBookmark, the operation still reports success; the record is added
\* without originalId, updated or removed in the store and in persistence, the
\* category counts and tag records are those of the new bookmark list, and the
\* operation's message is published.
C23_HostPassthroughBestEffort ==
    HostCallFailed =>
        /\ lastOp.ok
        /\ HostlessEffect
        /\ pBookmarks = bookmarks
        /\ CountsConsistent(bookmarks, categories)
        /\ pCategories = categories
        /\ TagsConsistent(bookmarks, tags)
        /\ pTags = tags

\* A deleteBookmark whose browser call was rejected has returned
C23_Witness ==
    /\ HostCallFailed
    /\ pass.hostFailed = "remove"
    /\ lastOp.op = "deleteBookmark"
    /\ lastOp.ok

----------------------------------------------------------------------------
(* SpecMessages: the MessageService of services/index.ts.  listeners is    *)
(* the Map as a list of [type, callbacks] entries in insertion order.  A   *)
(* callback is a function object: "f" returns, "g" throws, and "u" calls   *)
(* the unsubscribe function that its listen() call returned.               *)

MessageTypes == {"bookmark-added", "bookmark-deleted"}

Callbacks == {"f", "g", "u"}

\* this.listeners.has(type): the index of the entry, 0 when there is none
ListenerEntry(lst, type) == FindIndex(lst, LAMBDA e : e.type = type)

\* this.listeners.get(type), an empty list standing for undefined
CallbacksOf(lst, type) ==
    IF ListenerEntry(lst, type) = 0 THEN <<>>
    ELSE lst[ListenerEntry(lst, type)].callbacks

\* The number of registrations
Registrations(lst) ==
    IF lst = <<>> THEN 0
    ELSE Len(CallbacksOf(lst, "bookmark-added"))
         + Len(CallbacksOf(lst, "bookmark-deleted"))

\* listen(type, callback): if (!this.listeners.has(type)) this.listeners.set(
\* type, []); callbacks.push(callback)
listen(lst, type, callback) ==
    LET withEntry == IF ListenerEntry(lst, type) = 0
                     THEN Append(lst, [type |-> type, callbacks |-> <<>>])
                     ELSE lst
        k == ListenerEntry(withEntry, type)
    IN  [withEntry EXCEPT ![k].callbacks = Append(@, callback)]

\* The function listen returns: const index = callbacks.indexOf(callback);
\* if (index !== -1) callbacks.splice(index, 1)
unlisten(lst, type, callback) ==
    LET k == ListenerEntry(lst, type)
        index == IF k = 0 THEN 0
                 ELSE FindIndex(lst[k].callbacks, LAMBDA c : c = callback)
    IN  IF index = 0 THEN lst
        ELSE [lst EXCEPT ![k].callbacks = RemoveAt(@, index)]

\* What calling the callback does to the listeners, and whether it throws
Invoke(lst, type, callback) ==
    [listeners |-> IF callback = "u" THEN unlisten(lst, type, callback) ELSE lst,
     throws |-> callback = "g"]

\* callbacks.forEach(callback => { try { callback(data) } catch (error) {
\* console.error(...) } }): forEach visits the indexes below the length the
\* array had when it began, skipping those the array no longer has
RECURSIVE SendLoop(_, _, _, _, _)
SendLoop(lst, type, i, len, invoked) ==
    IF i > len
    THEN [listeners |-> lst, invoked |-> invoked, thrown |-> FALSE]
    ELSE IF i > Len(CallbacksOf(lst, type))
    THEN SendLoop(lst, type, i + 1, len, invoked)
    ELSE LET callback == CallbacksOf(lst, type)[i]
             r == Invoke(lst, type, callback)
         IN  SendLoop(r.listeners, type, i + 1, len, Append(invoked, callback))

\* send(type, data): if (this.listeners.has(type)) { ...forEach... }
send(lst, type) ==
    SendLoop(lst, type, 1, Len(CallbacksOf(lst, type)), <<>>)

\* messageService.listen(type, callback)
MessageListen ==
    /\ Registrations(listeners) < MaxListeners
    /\ \E type \in MessageTypes, callback \in Callbacks :
          listeners' = listen(listeners, type, callback)
    /\ UNCHANGED <<hostVars, persVars, storeVars, now, uuidSeq, proc, pass,
                   prevPass, lastOp>>

\* A caller runs the function an earlier listen(type, callback) returned
MessageUnlisten ==
    /\ \E type \in MessageTypes, callback \in Callbacks :
          /\ \E c \in Range(CallbacksOf(listeners, type)) : c = callback
          /\ listeners' = unlisten(listeners, type, callback)
    /\ UNCHANGED <<hostVars, persVars, storeVars, now, uuidSeq, proc, pass,
                   prevPass, lastOp>>

\* messageService.send(type, data)
MessageSend ==
    /\ lastOp.n < MaxOps
    /\ \E type \in MessageTypes :
          LET r == send(listeners, type)
          IN  /\ listeners' = r.listeners
              /\ lastOp' = [op |-> "send", n |-> lastOp.n + 1, ok |-> ~r.thrown,
                            type |-> type,
                            registered |-> CallbacksOf(listeners, type),
                            invoked |-> r.invoked]
    /\ UNCHANGED <<hostVars, persVars, storeVars, now, uuidSeq, proc, pass,
                   prevPass>>

NextMessages ==
    \/ MessageListen
    \/ MessageUnlisten
    \/ MessageSend

SpecMessages == InitStore /\ [][NextMessages]_vars

\* C24: message bus isolation: send(type, data) invokes every callback
\* registered for that type, in registration order, and no other callback; a
\* callback that throws neither stops the remaining callbacks nor makes send
\* throw.
C24_SendReachesEveryCallback ==
    lastOp.op = "send" => lastOp.ok /\ lastOp.invoked = lastOp.registered

----------------------------------------------------------------------------
(* SpecQuery: the projections of the store and of the service over a       *)
(* library of more bookmarks than the 'frequent' view shows.               *)

\* .slice(0, 20) of the 'frequent' view
FrequentLimit == 20

\* The i-th bookmark of the library: two titles, two categories, four tag
\* lists, two creation times, never visited
LibraryRecord(i) ==
    Bookmark("q" \o ToString(i),
             IF i % 2 = 1 THEN "Site A" ELSE "News B",
             IF i % 2 = 1 THEN "https://a.example" ELSE "https://b.example",
             Undef, IF i % 5 = 0 THEN "note" ELSE "",
             IF i % 3 = 0 THEN "c1" ELSE "uncategorized",
             CASE i % 4 = 0 -> <<>>
               [] i % 4 = 1 -> <<"t1">>
               [] i % 4 = 2 -> <<"t1", "t2">>
               [] OTHER -> <<"t2">>,
             1 + (i % 2), 1 + (i % 2), NoNumber, 0, Undef, Undef, Undef,
             NoNumber)

Library == [i \in 1..LibrarySize |-> LibraryRecord(i)]

\* The store after loadData of the library, with a category under c1
InitQuery ==
    /\ hostTree = TreeBar
    /\ hostSeq = 2
    /\ hostEdits = 0
    /\ bookmarks = Library
    /\ categories = RecountCategoriesA(
                        DefaultCategories(1)
                        \o << Category("c2", "Papers", "c1", 2, 1, 1, 0, FALSE,
                                       FALSE, Undef),
                              Category("c1", "Reading", Undef, 4, 1, 1, 0, FALSE,
                                       FALSE, Undef) >>,
                        bookmarks, 1)
    /\ tags = << Tag("g1", "t1", 12, 1, 1, FALSE), Tag("g2", "t2", 11, 1, 1, FALSE) >>
    /\ lastSyncTime = 2
    /\ pBookmarks = bookmarks
    /\ pCategories = categories
    /\ pTags = tags
    /\ pLastSync = lastSyncTime
    /\ isSyncing = FALSE
    /\ isLoading = FALSE
    /\ now = 3
    /\ uuidSeq = 0
    /\ proc = [add |-> Idle, upd |-> Idle, del |-> Idle, delcat |-> Idle,
               sync |-> Idle, addcat |-> Idle, updcat |-> Idle,
               sync2 |-> Idle, sadd1 |-> Idle, sadd2 |-> Idle,
               sdel |-> Idle, ai |-> Idle, load |-> Idle]
    /\ pass = NoPass
    /\ prevPass = NoPass
    /\ lastOp = NoOp
    /\ listeners = NoListeners

\* Array.prototype.sort with a consistent comparator: stable, so an element
\* comes after those that compare before it and after the earlier ones that
\* compare equal to it
SortBy(s, Compare(_, _)) ==
    LET rank == [i \in 1..Len(s) |->
                    Cardinality({j \in 1..Len(s) :
                        \/ Compare(s[j], s[i]) < 0
                        \/ Compare(s[j], s[i]) = 0 /\ j < i}) + 1]
    IN  [k \in 1..Len(s) |-> s[CHOOSE i \in 1..Len(s) : rank[i] = k]]

\* Faulty variant: the whole array
NoSlice(s, n) == s

\* Array.prototype.slice(0, n)
Slice(s, n) == SubSeq(s, 1, IF n < Len(s) THEN n ELSE Len(s))

\* String.prototype.includes on the lower-cased strings of the model
StringIncludes(s, k) ==
    \/ k = ""
    \/ s = k
    \/ <<s, k>> \in {<<"site a", "site">>, <<"site a", " ">>, <<"news b", " ">>}

\* String.prototype.trim on the keywords of the model
trim(s) == IF s = " " THEN "" ELSE s

\* String.prototype.localeCompare on the titles and urls of the model
localeCompare(a, b) ==
    LET collation == <<"https://a.example", "https://b.example", "News B",
                       "Site A">>
        at(x) == FindIndex(collation, LAMBDA c : c = x)
    IN  at(a) - at(b)

\* 30 * 24 * 60 * 60 * 1000 and 7 * 24 * 60 * 60 * 1000 milliseconds, written
\* in seconds to stay within TLC's integers
ThirtyDays == 30 * 24 * 60 * 60
OneWeek == 7 * 24 * 60 * 60

\* a || 0 for an optional number
OrZero(x) == IF x = NoNumber THEN 0 ELSE x

\* Faulty variant: the projection works on the store's own array
KeepReference(bms) == [items |-> bms, shared |-> TRUE]

\* cloneDeep(bookmarks.value): a new array of new objects
cloneDeep(bms) == [items |-> bms, shared |-> FALSE]

\* The compare function of result.sort (stores/bookmark.ts:75-99)
SearchCompare(search, a, b) ==
    LET comparison ==
            CASE search.sortBy = "title" -> localeCompare(a.title, b.title)
              [] search.sortBy = "dateAdded" -> a.createdAt - b.createdAt
              [] search.sortBy = "lastVisited" ->
                     OrZero(a.lastVisited) - OrZero(b.lastVisited)
              [] search.sortBy = "url" -> localeCompare(a.url, b.url)
              [] OTHER -> a.createdAt - b.createdAt
    IN  IF search.sortOrder = "asc" THEN comparison ELSE 0 - comparison

\* enhanceBookmarks(bookmarks, categories), without the two date strings
enhanceBookmarks(bms, cats) ==
    MapSeq(bms, LAMBDA bookmark :
        LET k == FindIndex(cats, LAMBDA c : c.id = bookmark.categoryId)
        IN  bookmark @@ [isFolder |-> FALSE, level |-> 0,
                         path |-> IF k # 0 THEN <<cats[k].name>>
                                  ELSE <<"Uncategorized">>])

\* The computed filteredBookmarks: its value, and the store's array after it
filteredBookmarks(bms, cats, search, t) ==
    LET cloned == cloneDeep(bms)
        byCategory ==
            IF ~Falsy(search.categoryId) /\ search.categoryId # "all"
            THEN [shared |-> FALSE, items |->
                   CASE search.categoryId = "uncategorized" ->
                          Filter(cloned.items, LAMBDA bookmark :
                              Falsy(bookmark.categoryId)
                              \/ bookmark.categoryId = "uncategorized")
                     [] search.categoryId = "frequent" ->
                          Slice(SortBy(cloned.items, LAMBDA a, b :
                                           b.visitCount - a.visitCount),
                                FrequentLimit)
                     [] search.categoryId = "recent" ->
                          Filter(cloned.items, LAMBDA bookmark :
                              bookmark.createdAt >= t - ThirtyDays)
                     [] OTHER ->
                          Filter(cloned.items, LAMBDA bookmark :
                              bookmark.categoryId = search.categoryId)]
            ELSE cloned
        byTags ==
            IF search.tags # <<>>
            THEN [shared |-> FALSE, items |->
                   Filter(byCategory.items, LAMBDA bookmark :
                       \A i \in 1..Len(search.tags) :
                           search.tags[i] \in Range(bookmark.tags))]
            ELSE byCategory
        keyword == toLowerCase(search.keyword)
        byKeyword ==
            IF ~Falsy(search.keyword)
            THEN [shared |-> FALSE, items |->
                   Filter(byTags.items, LAMBDA bookmark :
                       \/ StringIncludes(toLowerCase(bookmark.title), keyword)
                       \/ StringIncludes(toLowerCase(bookmark.url), keyword)
                       \/ /\ bookmark.description # Undef
                          /\ StringIncludes(toLowerCase(bookmark.description),
                                            keyword)
                       \/ \E i \in 1..Len(bookmark.tags) :
                              StringIncludes(toLowerCase(bookmark.tags[i]),
                                             keyword))]
            ELSE byTags
        sorted == SortBy(byKeyword.items,
                         LAMBDA a, b : SearchCompare(search, a, b))
    IN  [value |-> enhanceBookmarks(sorted, cats),
         bookmarks |-> IF byKeyword.shared THEN sorted ELSE bms]

\* bookmarkService.searchBookmarks(keyword, categoryId, tags) over the list
\* storageService.getBookmarks() returned
searchBookmarks(stored, keyword, categoryId, tgs, t) ==
    LET byCategory ==
            IF ~Falsy(categoryId) /\ categoryId # "all"
            THEN CASE categoryId = "frequent" ->
                        Slice(SortBy(stored, LAMBDA a, b :
                                  OrZero(b.visitCount) - OrZero(a.visitCount)),
                              FrequentLimit)
                   [] categoryId = "recent" ->
                        SortBy(Filter(stored, LAMBDA b : b.createdAt > t - OneWeek),
                               LAMBDA a, b : b.createdAt - a.createdAt)
                   [] categoryId = "uncategorized" ->
                        Filter(stored, LAMBDA b : b.categoryId = "uncategorized")
                   [] OTHER ->
                        Filter(stored, LAMBDA b : b.categoryId = categoryId)
            ELSE stored
        byTags ==
            IF tgs # Undef /\ tgs # <<>>
            THEN Filter(byCategory, LAMBDA b :
                     \E i \in 1..Len(tgs) : tgs[i] \in Range(b.tags))
            ELSE byCategory
        searchTerm == toLowerCase(trim(keyword))
    IN  IF ~Falsy(keyword) /\ ~Falsy(trim(keyword))
        THEN Filter(byTags, LAMBDA b :
                 \/ StringIncludes(toLowerCase(b.title), searchTerm)
                 \/ StringIncludes(toLowerCase(b.url), searchTerm)
                 \/ /\ ~Falsy(b.description)
                    /\ StringIncludes(toLowerCase(b.description), searchTerm))
        ELSE byTags

\* buildTree(parentId, level) of buildCategoryTree: the categories grouped
\* under parentId || 'root', each copied with its subtree, sorted by order
RECURSIVE buildTree(_, _, _)
buildTree(cats, parentId, level) ==
    LET children == Filter(cats, LAMBDA category :
                        OrElse(category.parentId, "root") = parentId)
        made == [i \in 1..Len(children) |->
                    [k \in DOMAIN children[i] \ {"folderState"} |-> children[i][k]]
                    @@ [children |-> buildTree(cats, children[i].id, level + 1),
                        level |-> level,
                        folderState |-> IF level < 1 THEN EXPANDED
                                        ELSE COLLAPSED]]
    IN  SortBy(made, LAMBDA a, b : a.order - b.order)

\* buildCategoryTree(categories)
buildCategoryTree(cats) == buildTree(cats, "root", 0)

IsDefaultCategory(id) ==
    \E i \in 1..Len(DEFAULT_CATEGORIES) : DEFAULT_CATEGORIES[i].id = id

\* child.level of getCategoryTree: one more than the level the parent has
\* when the child is reached, and 0 for a category without a parent
RECURSIVE LevelInTree(_, _)
LevelInTree(cats, i) ==
    LET p == FindIndex(cats, LAMBDA c : c.id = cats[i].parentId)
    IN  IF IsDefaultCategory(cats[i].id) THEN 0
        ELSE IF ~Falsy(cats[i].parentId) /\ p # 0
        THEN (IF IsDefaultCategory(cats[p].id) \/ p < i
              THEN LevelInTree(cats, p) ELSE 0) + 1
        ELSE 0

\* The copy map holds for the category at i, when the loops are over: its
\* children are the later loop's pushes, sorted by sortCategories
RECURSIVE TreeNode(_, _)
TreeNode(cats, i) ==
    LET below == Filter([j \in 1..Len(cats) |-> j], LAMBDA j :
                     /\ ~IsDefaultCategory(cats[j].id)
                     /\ cats[j].parentId = cats[i].id)
    IN  cats[i] @@ [level |-> LevelInTree(cats, i),
                    children |-> SortBy(MapSeq(below, LAMBDA j : TreeNode(cats, j)),
                                        LAMBDA a, b : a.order - b.order)]

\* bookmarkService.getCategoryTree() over the list storageService
\* .getCategories() returned: the default categories as they were read, with
\* level 0, then the copies of the categories without a parent
getCategoryTree(stored) ==
    LET defaults == Filter(MapSeq(DEFAULT_CATEGORIES, LAMBDA defaultCat :
                               FindIndex(stored, LAMBDA c : c.id = defaultCat.id)),
                           LAMBDA k : k # 0)
        roots == Filter([j \in 1..Len(stored) |-> j], LAMBDA j :
                     /\ ~IsDefaultCategory(stored[j].id)
                     /\ Falsy(stored[j].parentId))
    IN  SortBy(MapSeq(defaults, LAMBDA k : stored[k] @@ [level |-> 0])
               \o MapSeq(roots, LAMBDA j : TreeNode(stored, j)),
               LAMBDA a, b : a.order - b.order)

\* The bookmarks the model visits, and an id no bookmark has
VisitedIds == {"q1", "q20", "q21", "q22", "missing"}

\* The search parameters the model draws
SearchCategoryIds == {"all", "uncategorized", "frequent", "c1"}
SearchTagLists == {<<>>, <<"t1">>, <<"t1", "t2">>}
SearchParamsSet ==
    [keyword : {"", "Site"}, categoryId : SearchCategoryIds,
     tags : SearchTagLists, sortBy : {"dateAdded", "title"},
     sortOrder : {"asc", "desc"}]

\* The projections are read once after each operation: a second read would
\* find the same inputs
InputsChanged == lastOp.op \in {"none", "addBookmarkVisit"}

\* addBookmarkVisit(id)
AddBookmarkVisit ==
    /\ lastOp.n < MaxOps
    /\ \E id \in VisitedIds :
          LET index == FindIndex(bookmarks, LAMBDA b : b.id = id)
          IN  IF index = 0
              THEN /\ lastOp' = Done("addBookmarkVisit", FALSE)
                   /\ UNCHANGED <<bookmarks, pBookmarks>>
              ELSE /\ bookmarks' = [bookmarks EXCEPT ![index] =
                          Spread(@, [visitCount |-> OrZero(@.visitCount) + 1,
                                     lastVisited |-> now])]
                   /\ pBookmarks' = bookmarks'
                   /\ lastOp' = Done("addBookmarkVisit", TRUE)
    /\ UNCHANGED <<hostVars, listeners, pCategories, pTags, pLastSync, categories,
                   tags, lastSyncTime, isSyncing, isLoading, now, uuidSeq, proc, pass,
                   prevPass>>

\* A reader of filteredBookmarks.value, after updateSearchParams(search)
FilteredBookmarks ==
    /\ InputsChanged
    /\ \E search \in SearchParamsSet :
          LET r == filteredBookmarks(bookmarks, categories, search, now)
          IN  /\ bookmarks' = r.bookmarks
              /\ lastOp' = [op |-> "filteredBookmarks", n |-> lastOp.n,
                            ok |-> TRUE, search |-> search, over |-> bookmarks,
                            value |-> r.value]
    /\ UNCHANGED <<hostVars, listeners, persVars, categories, tags, lastSyncTime,
                   isSyncing, isLoading, now, uuidSeq, proc, pass, prevPass>>

\* bookmarkService.searchBookmarks(keyword, categoryId, tags)
SearchBookmarks ==
    /\ InputsChanged
    /\ \E keyword \in {Undef, " ", "Site"}, categoryId \in SearchCategoryIds,
          tgs \in SearchTagLists :
          lastOp' = [op |-> "searchBookmarks", n |-> lastOp.n, ok |-> TRUE,
                     search |-> [keyword |-> keyword, categoryId |-> categoryId,
                                 tags |-> tgs],
                     over |-> pBookmarks,
                     value |-> searchBookmarks(pBookmarks, keyword, categoryId,
                                               tgs, now)]
    /\ UNCHANGED <<hostVars, listeners, persVars, storeVars, now, uuidSeq, proc,
                   pass, prevPass>>

\* A reader of categoryTree.value
CategoryTree ==
    /\ InputsChanged
    /\ lastOp' = [op |-> "categoryTree", n |-> lastOp.n, ok |-> TRUE,
                  value |-> buildCategoryTree(categories)]
    /\ UNCHANGED <<hostVars, listeners, persVars, storeVars, now, uuidSeq, proc,
                   pass, prevPass>>

\* bookmarkService.getCategoryTree()
GetCategoryTree ==
    /\ InputsChanged
    /\ lastOp' = [op |-> "getCategoryTree", n |-> lastOp.n, ok |-> TRUE,
                  value |-> getCategoryTree(pCategories)]
    /\ UNCHANGED <<hostVars, listeners, persVars, storeVars, now, uuidSeq, proc,
                   pass, prevPass>>

NextQuery ==
    \/ AddBookmarkVisit
    \/ FilteredBookmarks
    \/ SearchBookmarks
    \/ CategoryTree
    \/ GetCategoryTree

SpecQuery == InitQuery /\ [][NextQuery]_vars

\* The bookmarks of bms that fewer than FrequentLimit others outrank, one
\* outranking another when it has more visits, or as many and comes earlier
FrequentIds(bms) ==
    {bms[i].id : i \in {i \in 1..Len(bms) :
        Cardinality({j \in 1..Len(bms) :
            \/ bms[j].visitCount > bms[i].visitCount
            \/ bms[j].visitCount = bms[i].visitCount /\ j < i}) < FrequentLimit}}

FrequentRead ==
    /\ lastOp.op \in {"filteredBookmarks", "searchBookmarks"}
    /\ lastOp.search.categoryId = "frequent"

\* C25: category filter 'frequent': the result is taken from the 20 bookmarks
\* with the highest visitCount of the whole collection, ties broken by array
\* order, chosen before the tag and keyword filters: the result is a subset of
\* those 20, and all of them when there is no tag and no keyword.
C25_FrequentFromTopTwenty ==
    FrequentRead =>
        /\ IdsOf(lastOp.value) \subseteq FrequentIds(lastOp.over)
        /\ lastOp.search.tags = <<>> /\ Falsy(lastOp.search.keyword)
              => IdsOf(lastOp.value) = FrequentIds(lastOp.over)

\* A 'frequent' read with a tag filter over more than 20 bookmarks, where a
\* visited bookmark has displaced an earlier one and a bookmark with the tag
\* is left out for being outside the 20
C25_Witness ==
    /\ FrequentRead
    /\ lastOp.op = "filteredBookmarks"
    /\ lastOp.search.tags = <<"t1">>
    /\ Len(lastOp.over) > FrequentLimit
    /\ "q21" \in IdsOf(lastOp.value)
    /\ "q20" \notin FrequentIds(lastOp.over)
    /\ \E i \in 1..Len(lastOp.over) :
          /\ "t1" \in Range(lastOp.over[i].tags)
          /\ lastOp.over[i].id \notin IdsOf(lastOp.value)
          /\ lastOp.over[i].id \notin FrequentIds(lastOp.over)

\* C26: the tag filter has AND semantics: for every non-empty tag list, a
\* bookmark is in the projection or the search result only if its tags
\* contain every requested tag.
C26_TagFilterAnd ==
    /\ lastOp.op \in {"filteredBookmarks", "searchBookmarks"}
    /\ lastOp.search.tags # <<>>
    => \A i \in 1..Len(lastOp.value) :
          Range(lastOp.search.tags) \subseteq Range(lastOp.value[i].tags)

ProjectionReads ==
    {"filteredBookmarks", "searchBookmarks", "categoryTree", "getCategoryTree"}

\* C27: the projector is read-only: evaluating filteredBookmarks,
\* searchBookmarks, buildCategoryTree or getCategoryTree, for any search
\* parameters, leaves the bookmarks and categories of the store and of the
\* storage unchanged in content and in order.
C27_ProjectorReadOnly ==
    [][lastOp'.op \in ProjectionReads
       => UNCHANGED <<bookmarks, categories, tags, pBookmarks, pCategories,
                      pTags>>]_vars

\* filteredBookmarks read without any filter and sorted by title, so that the
\* sort runs over every bookmark and gives another order than the store's
C27_Witness ==
    /\ lastOp.op = "filteredBookmarks"
    /\ lastOp.search.categoryId = "all"
    /\ lastOp.search.tags = <<>>
    /\ lastOp.search.keyword = ""
    /\ lastOp.search.sortBy = "title"
    /\ Len(lastOp.value) = Len(bookmarks)
    /\ \E i \in 1..Len(bookmarks) : lastOp.value[i].id # bookmarks[i].id
    /\ bookmarks = lastOp.over

----------------------------------------------------------------------------
(* SpecFolders: sync passes over trees with nested folders of one title    *)
(* and with leaves whose parentId is missing or names no node.             *)

\* A folder "Work" holding a folder "Work" holding a bookmark
TreeNested ==
    << Root,
       HostNode("1", "0", "0", "Bookmarks bar", Undef, 1),
       HostNode("f1", "1", "1", "Work", Undef, 1),
       HostNode("f2", "f1", "f1", "Work", Undef, 1),
       HostNode("h1", "f2", "f2", "Site A", "https://a.example", 2) >>

\* A bookmark without parentId in a folder, and one whose parentId names no
\* node on the bookmarks bar
TreeMalformed ==
    << Root,
       HostNode("1", "0", "0", "Bookmarks bar", Undef, 1),
       HostNode("f1", "1", "1", "Work", Undef, 1),
       HostNode("h1", "f1", Undef, "Site A", "https://a.example", 2),
       HostNode("h2", "1", "zz", "Site B", "https://b.example", 2) >>

FolderTrees == {TreeNested, TreeMalformed}

InitFolders ==
    /\ hostTree \in FolderTrees
    /\ hostSeq = 2
    /\ hostEdits = 0
    /\ pBookmarks \in InitialBookmarkSets
    /\ pCategories = IF pBookmarks = <<>> THEN <<>>
                     ELSE InitialCategoriesFor(pBookmarks)
    /\ pTags = InitialTagsFor(pBookmarks)
    /\ pLastSync = 0
    /\ bookmarks = <<>>
    /\ categories = <<>>
    /\ tags = <<>>
    /\ lastSyncTime = 0
    /\ isSyncing = FALSE
    /\ isLoading = FALSE
    /\ now = 3
    /\ uuidSeq = 0
    /\ proc = <<>>
    /\ pass = NoPass
    /\ prevPass = NoPass
    /\ lastOp = NoOp
    /\ listeners = NoListeners

SpecFolders == InitFolders /\ [][NextSync]_vars

\* The folders of the tree the pass read
PassFolders == {n \in Range(pass.tree) : ~IsLeaf(n) /\ ~Falsy(n.parentId)}

\* What the pass resolved the folder `id` to
ResolvedFor(id) == {e \in Range(pass.resolved) : e.folder = id}

\* The category resolved for the folder that holds the node; undefined for a
\* node that hangs off the root
ParentCategory(node) ==
    IF \E e \in Range(pass.resolved) : e.folder = node.up
    THEN (CHOOSE e \in Range(pass.resolved) : e.folder = node.up).categoryId
    ELSE Undef

\* C28: folder-to-category resolution: in a pass an existing category is
\* reused for a host folder only if it is not builtin, has the folder's title
\* and has the category resolved for the folder's parent as its parent;
\* otherwise a new category is made with that parent and folderState
\* collapsed; every folder is resolved once, and its subfolders are resolved
\* under its category.
C28_FolderResolution ==
    pass.n >= 1 =>
        \A f \in PassFolders :
            /\ Cardinality(ResolvedFor(f.id)) = 1
            /\ \A e \in ResolvedFor(f.id) :
                  /\ e.parentCategoryId = ParentCategory(f)
                  /\ IF e.categoryId \in IdsOf(pass.priorCategories)
                     THEN \A c \in Range(pass.priorCategories) :
                              c.id = e.categoryId =>
                                  /\ ~c.builtin
                                  /\ c.name = f.title
                                  /\ c.parentId = ParentCategory(f)
                     ELSE \E c \in Range(pass.categories) :
                              /\ c.id = e.categoryId
                              /\ c.name = f.title
                              /\ c.parentId = ParentCategory(f)
                              /\ c.folderState = COLLAPSED

\* C29: reconcile is pure over its inputs: a pass leaves every prior bookmark
\* record and every prior category record it was given as it was, no field,
\* bookmarkCount included, differing after the pass from before it.
C29_PriorRecordsUntouched ==
    pass.n >= 1 =>
        /\ pass.priorBookmarksAfter = pass.priorBookmarks
        /\ pass.priorCategoriesAfter = pass.priorCategories

\* The leaf's parentId is missing or is the id of no node of the tree
ParentUnresolved(tree, node) ==
    Falsy(node.parentId) \/ \A n \in Range(tree) : n.id # node.parentId

\* C30: no host bookmark is discarded: every leaf of the tree the pass read,
\* also one whose parentId is missing or names no node, yields exactly one
\* record in the result, and a new record for a leaf whose parent cannot be
\* resolved is 'uncategorized'.
C30_NoLeafDiscarded ==
    pass.n >= 1 =>
        \A node \in PassLeaves :
            /\ CountOf(pass.bookmarks, LAMBDA r : r.originalId = node.id) = 1
            /\ ParentUnresolved(pass.tree, node) /\ PriorFor(node.id) = {}
                  => \A r \in ResultFor(node.id) : r.categoryId = "uncategorized"

----------------------------------------------------------------------------
(* SpecFlatten: flattenBookmarkTree over trees that hold the toolbar       *)
(* container, with the browser's tree changing in between.                 *)

\* Firefox's layout: the root holds the toolbar container, which holds a
\* folder and a bookmark
TreeToolbar ==
    << Root,
       HostNode(ToolbarId, "0", "0", "Bookmarks Toolbar", Undef, 1),
       HostNode("f1", ToolbarId, ToolbarId, "Work", Undef, 1),
       HostNode("h1", "f1", "f1", "Site A", "https://a.example", 2),
       HostNode("h2", ToolbarId, ToolbarId, "Site B", "https://b.example", 2) >>

\* The toolbar container next to a menu folder
TreeMenuAndToolbar ==
    << Root,
       HostNode("m1", "0", "0", "Bookmarks Menu", Undef, 1),
       HostNode(ToolbarId, "0", "0", "Bookmarks Toolbar", Undef, 1),
       HostNode("h1", "m1", "m1", "Site A", "https://a.example", 2),
       HostNode("h2", ToolbarId, ToolbarId, "Site B", "https://b.example", 2) >>

ToolbarTrees == {TreeToolbar, TreeMenuAndToolbar}

InitFlatten ==
    /\ hostTree \in ToolbarTrees
    /\ hostSeq = 2
    /\ hostEdits = 0
    /\ pBookmarks \in InitialBookmarkSets
    /\ pCategories = IF pBookmarks = <<>> THEN <<>>
                     ELSE InitialCategoriesFor(pBookmarks)
    /\ pTags = InitialTagsFor(pBookmarks)
    /\ pLastSync = 0
    /\ bookmarks = <<>>
    /\ categories = <<>>
    /\ tags = <<>>
    /\ lastSyncTime = 0
    /\ isSyncing = FALSE
    /\ isLoading = FALSE
    /\ now = 3
    /\ uuidSeq = 0
    /\ proc = <<>>
    /\ pass = NoPass
    /\ prevPass = NoPass
    /\ lastOp = NoOp
    /\ listeners = NoListeners

\* bookmarkService.flattenBookmarkTree(await browser.bookmarks.getTree())
FlattenTree ==
    /\ lastOp' = [op |-> "flattenBookmarkTree", n |-> lastOp.n, ok |-> TRUE,
                  tree |-> hostTree, value |-> flattenBookmarkTree(hostTree)]
    /\ UNCHANGED <<hostVars, listeners, persVars, storeVars, now, uuidSeq, proc,
                   pass, prevPass>>

NextFlatten ==
    \/ FlattenTree
    \/ HostAdd
    \/ HostRemove
    \/ HostEdit
    \/ Tick

SpecFlatten == InitFlatten /\ [][NextFlatten]_vars

\* The nodes of the tree that flattenBookmarkTree filters out
FilteredContainers(tree) == {n \in Range(tree) : n.id = ToolbarId}

\* C31: host tree reader filtering: flattenBookmarkTree emits no node for
\* the toolbar container, emits every other node of the tree once, and emits
\* each direct child of the container with the container's own parent as its
\* parentId, never the container's id.
C31_FilteredContainerSkipped ==
    lastOp.op = "flattenBookmarkTree" =>
        /\ \A e \in Range(lastOp.value) : e.id # ToolbarId
        /\ \A n \in Range(lastOp.tree) \ FilteredContainers(lastOp.tree) :
              CountOf(lastOp.value, LAMBDA e : e.id = n.id) = 1
        /\ \A c \in FilteredContainers(lastOp.tree) :
              \A e \in Range(lastOp.value) :
                  (\E n \in Range(lastOp.tree) : n.id = e.id /\ n.up = c.id)
                      => e.parentId = c.up /\ e.parentId # c.id

----------------------------------------------------------------------------
(* SpecFolderState: updateCategoryFolderState among the category           *)
(* operations of the store.  categoryTree is a computed: its value is kept *)
(* until categories.value changes and is built anew on the next read.      *)

\* The nodes of a category tree, parents before their children
RECURSIVE TreeNodes(_)
TreeNodes(tree) ==
    IF tree = <<>> THEN <<>>
    ELSE <<Head(tree)>> \o TreeNodes(Head(tree).children) \o TreeNodes(Tail(tree))

\* findAndUpdate(cats, targetId, state) from index i on: the first node with
\* the id, searching each node's children before its later siblings
RECURSIVE findAndUpdate(_, _, _, _)
findAndUpdate(cats, i, targetId, state) ==
    IF i > Len(cats) THEN [cats |-> cats, found |-> FALSE]
    ELSE IF cats[i].id = targetId
    THEN [cats |-> [cats EXCEPT ![i].folderState = state], found |-> TRUE]
    ELSE LET below == findAndUpdate(cats[i].children, 1, targetId, state)
         IN  IF below.found
             THEN [cats |-> [cats EXCEPT ![i].children = below.cats],
                   found |-> TRUE]
             ELSE findAndUpdate(cats, i + 1, targetId, state)

\* categoryTree.value: the tree the last updateCategoryFolderState wrote to
\* while categories.value is what it was built from, a new tree otherwise
categoryTreeValue ==
    IF lastOp.op = "updateCategoryFolderState" /\ lastOp.categories = categories
    THEN lastOp.value
    ELSE buildCategoryTree(categories)

\* updateCategoryFolderState(id, folderState)
UpdateCategoryFolderState ==
    /\ AllIdle
    /\ OpsBegun < MaxOps
    /\ \E id \in CategoryIds, folderState \in {EXPANDED, COLLAPSED} :
          LET r == findAndUpdate(categoryTreeValue, 1, id, folderState)
          IN  lastOp' = Done("updateCategoryFolderState", r.found)
                        @@ [id |-> id, folderState |-> folderState,
                            categories |-> categories, value |-> r.cats]
    /\ UNCHANGED <<hostVars, listeners, persVars, storeVars, now, uuidSeq, proc,
                   pass, prevPass>>

NextFolderState ==
    \/ UpdateCategoryFolderState
    \/ NextCategories

SpecFolderState == InitStore /\ [][NextFolderState]_vars

\* The folderState the tree has for the category id
FolderStateInTree(tree, id) ==
    {node.folderState : node \in {n \in Range(TreeNodes(tree)) : n.id = id}}

\* C32: buildCategoryTree gives the default folderState (expanded at level
\* 0, collapsed below) only to categories without an explicit folderState: a
\* category whose folderState is set in the store, or was set by
\* updateCategoryFolderState, has that value in the tree built after
\* categories.value has changed.
C32_ExplicitFolderStateKept ==
    /\ \A c \in Range(categories) :
          c.folderState # Undef =>
              FolderStateInTree(categoryTreeValue, c.id) \subseteq {c.folderState}
    /\ lastOp.op = "updateCategoryFolderState" /\ lastOp.ok
          => FolderStateInTree(categoryTreeValue, lastOp.id)
                 \subseteq {lastOp.folderState}

\* The number of parent links from the category to one without a parent
RECURSIVE DepthOf(_, _, _)
DepthOf(cats, c, fuel) ==
    IF Falsy(c.parentId) \/ fuel = 0 THEN 0
    ELSE LET p == FindIndex(cats, LAMBDA x : x.id = c.parentId)
         IN  IF p = 0 THEN 0 ELSE 1 + DepthOf(cats, cats[p], fuel - 1)

\* The lists of siblings of a tree: the roots, and each node's children
SiblingLists(tree) ==
    {tree} \cup {n.children : n \in Range(TreeNodes(tree))}

\* C38: the category tree loses no category: after any sequence of
\* addCategory, updateCategory and deleteCategory every category of the store
\* is in the tree buildCategoryTree returns exactly once, at the level of its
\* depth, and siblings are in ascending order.
C38_TreeHoldsEveryCategory ==
    AllIdle =>
        LET tree == buildCategoryTree(categories)
        IN  /\ \A c \in Range(categories) :
                  /\ CountOf(TreeNodes(tree), LAMBDA n : n.id = c.id) = 1
                  /\ \A n \in Range(TreeNodes(tree)) :
                        n.id = c.id => n.level = DepthOf(categories, c,
                                                         Len(categories))
            /\ \A sibs \in SiblingLists(tree) :
                  \A i \in 1..(Len(sibs) - 1) : sibs[i].order <= sibs[i+1].order

\* C37: delivery is complete under unsubscription during delivery: in every
\* send(type), a callback that was registered for the type when send began
\* and that nothing unsubscribed is invoked once for each of its
\* registrations, also when an earlier callback ran its own unsubscribe
\* function during the send.
C37_DeliveryCompleteUnderUnsubscribe ==
    lastOp.op = "send" =>
        \A c \in Range(lastOp.registered) \ {"u"} :
            CountOf(lastOp.invoked, LAMBDA x : x = c)
                = CountOf(lastOp.registered, LAMBDA x : x = c)

\* ---- C33: aggregates after analyzeBookmark ----

\* Every persisted category's bookmarkCount is the number of persisted
\* bookmarks with that categoryId
CategoryCountsMatch ==
    \A c \in Range(pCategories) :
        c.bookmarkCount
            = CountOf(pBookmarks, LAMBDA b : b.categoryId = c.id)

\* Every persisted tag's count is the number of persisted bookmarks whose
\* tags hold the tag, by its id (what analyzeBookmark stores) or by its name
\* (what the callers of addBookmark store)
TagCountsMatch ==
    \A t \in Range(pTags) :
        t.count
            = CountOf(pBookmarks,
                  LAMBDA b : \E i \in 1..Len(b.tags) :
                                 b.tags[i] \in {t.id, t.name})

\* C33: aggregates stay consistent after AI enrichment: when analyzeBookmark,
\* the only call made so far, completes having moved the bookmark out of
\* 'uncategorized' into the AI-recommended category, every persisted
\* category's bookmarkCount equals the number of persisted bookmarks with
\* that categoryId and every persisted tag's count equals the number of
\* persisted bookmarks referencing it.
C33_AggregatesAfterAnalyze ==
    [][(/\ AnalyzeReturn
        /\ lastOp.n = 0
        /\ AllIdle'
        /\ "categoryId" \in DOMAIN proc.ai)
           => (CategoryCountsMatch /\ TagCountsMatch)']_vars

----------------------------------------------------------------------------
(* SpecLoad: store loadData called on its own, the sync pass it may start, *)
(* store syncBookmarks and the ways a pass fails; every await settles.     *)

\* A browser with no bookmarks
TreeNoBookmarks == << Root >>

\* What storage holds when the store is set up: nothing, or what an earlier
\* sync left, saved a moment ago (time 2) or long ago (time 0)
StoredStates ==
    { [bookmarks |-> <<>>, categories |-> <<>>, lastSync |-> 0] }
    \cup { [bookmarks |-> << SyncedRecord >>,
            categories |-> InitialCategoriesFor(<< SyncedRecord >>),
            lastSync |-> t] : t \in {0, 2} }

\* The store as defineStore leaves it, before the first loadData
InitLoad ==
    /\ hostTree \in {TreeNoBookmarks, TreeBar}
    /\ hostSeq = 2
    /\ hostEdits = 0
    /\ \E st \in StoredStates :
          /\ pBookmarks = st.bookmarks
          /\ pCategories = st.categories
          /\ pLastSync = st.lastSync
    /\ pTags = <<>>
    /\ bookmarks = <<>>
    /\ categories = <<>>
    /\ tags = <<>>
    /\ lastSyncTime = 0
    /\ isSyncing = FALSE
    /\ isLoading = FALSE
    /\ now = 3
    /\ uuidSeq = 0
    /\ proc = [add |-> Idle, upd |-> Idle, del |-> Idle, delcat |-> Idle,
               sync |-> Idle, addcat |-> Idle, updcat |-> Idle,
               sync2 |-> Idle, sadd1 |-> Idle, sadd2 |-> Idle,
               sdel |-> Idle, ai |-> Idle, load |-> Idle]
    /\ pass = NoPass
    /\ prevPass = NoPass
    /\ lastOp = NoOp
    /\ listeners = NoListeners

\* loadData(): isLoading.value = true, up to
\* `bookmarks.value = await storageService.getBookmarks()`
LoadDataCall ==
    /\ proc.load.pc = "idle"
    /\ OpsBegun < MaxOps
    /\ isLoading' = TRUE
    /\ proc' = [proc EXCEPT !.load = [pc |-> "loadBookmarks"]]
    /\ UNCHANGED <<hostVars, listeners, persVars, bookmarks, categories, tags,
                   lastSyncTime, isSyncing, now, uuidSeq, pass, prevPass,
                   lastOp>>

\* bookmarks.value = <the stored bookmarks>;
\* const savedCategories = await storageService.getCategories()
LoadDataGotBookmarks ==
    /\ proc.load.pc = "loadBookmarks"
    /\ bookmarks' = pBookmarks
    /\ proc' = [proc EXCEPT !.load = [pc |-> "loadCategories"]]
    /\ UNCHANGED <<hostVars, listeners, persVars, categories, tags, lastSyncTime,
                   isSyncing, isLoading, now, uuidSeq, pass, prevPass, lastOp>>

\* categories.value = savedCategories.length > 0 ? savedCategories : <defaults>;
\* tags.value = await storageService.getTags()
LoadDataGotCategories ==
    /\ proc.load.pc = "loadCategories"
    /\ categories' = IF Len(pCategories) > 0 THEN pCategories
                     ELSE DefaultCategories(now)
    /\ proc' = [proc EXCEPT !.load = [pc |-> "loadTags"]]
    /\ UNCHANGED <<hostVars, listeners, persVars, bookmarks, tags, lastSyncTime,
                   isSyncing, isLoading, now, uuidSeq, pass, prevPass, lastOp>>

\* tags.value = <the stored tags>;
\* lastSyncTime.value = await storageService.getLastSyncTime()
LoadDataGotTags ==
    /\ proc.load.pc = "loadTags"
    /\ tags' = pTags
    /\ proc' = [proc EXCEPT !.load = [pc |-> "loadLastSync"]]
    /\ UNCHANGED <<hostVars, listeners, persVars, bookmarks, categories, lastSyncTime,
                   isSyncing, isLoading, now, uuidSeq, pass, prevPass, lastOp>>

\* lastSyncTime.value = <the stored time>; if (bookmarks.value.length === 0 ||
\* lastSyncTime.value < oneDayAgo) syncBookmarks(), which runs up to its first
\* await; return true; finally isLoading.value = false
LoadDataGotLastSync ==
    /\ proc.load.pc = "loadLastSync"
    /\ lastSyncTime' = pLastSync
    /\ LET a == AutoSync(AutoSyncWanted(bookmarks, pLastSync, now),
                         [proc EXCEPT !.load = Idle], isSyncing)
       IN  /\ proc' = a.proc
           /\ isSyncing' = a.isSyncing
           /\ lastOp' = Done("loadData", TRUE) @@ [autoSync |-> a.outcome]
    /\ isLoading' = FALSE
    /\ UNCHANGED <<hostVars, listeners, persVars, bookmarks, categories, tags, now,
                   uuidSeq, pass, prevPass>>

LoadDataSteps ==
    \/ LoadDataGotBookmarks
    \/ LoadDataGotCategories
    \/ LoadDataGotTags
    \/ LoadDataGotLastSync

\* Faulty variant: isSyncing is reset in the try block only
NoFinally(flag) == flag

\* finally { isSyncing.value = false }
SyncFinally(flag) == FALSE

\* Store syncBookmarks: loadData has returned, lastSyncTime.value = Date.now(),
\* and `await storageService.saveLastSyncTime(lastSyncTime.value)` is
\* rejected: catch (error) { console.error(...); return false }, then finally
SyncSaveTimeFailed ==
    /\ proc.sync.pc = "loadLastSync"
    /\ LET a == AutoSync(AutoSyncWanted(bookmarks, pLastSync, now),
                         [proc EXCEPT !.sync = [pc |-> "savedTime"]], isSyncing)
       IN  /\ proc' = [a.proc EXCEPT !.sync = Idle]
           /\ isSyncing' = SyncFinally(a.isSyncing)
           /\ lastOp' = Done("syncBookmarks", FALSE)
                        @@ [sent |-> <<>>, autoSync |-> a.outcome,
                            threw |-> "saveLastSyncTime"]
    /\ isLoading' = FALSE
    /\ lastSyncTime' = now
    /\ UNCHANGED <<hostVars, listeners, persVars, bookmarks, categories, tags, now,
                   uuidSeq, pass, prevPass>>

\* The uuids left to draw are enough for the pass a call may start, which
\* draws at most one for each bookmark of the browser
UuidsLeft == uuidSeq + Cardinality(LeafIds(hostTree)) <= MaxUuid

\* Before the first call: the browser and the clock change then
NoOpYet == AllIdle /\ lastOp.n = 0

NextLoad ==
    \/ AllIdle /\ UuidsLeft /\ LoadDataCall
    \/ LoadDataSteps
    \/ AllIdle /\ UuidsLeft /\ SyncBookmarksCall
    \/ SyncBookmarksSteps
    \/ SyncTreeFailed
    \/ SyncSaveBookmarksFailed
    \/ SyncSaveCategoriesFailed
    \/ SyncSaveLastSyncFailed
    \/ SyncSaveTimeFailed
    \/ NoOpYet /\ Tick

\* Every await of a call in flight settles: the promise resolves, which is
\* the step of LoadDataSteps or SyncBookmarksSteps at the call's position, or
\* is rejected, which is one of the Failed steps
SpecLoad ==
    /\ InitLoad
    /\ [][NextLoad]_vars
    /\ WF_vars(LoadDataSteps \/ SyncBookmarksSteps)

\* A syncBookmarks call made while no call is in flight is turned away
IdleSyncRejected == AllIdle /\ SyncCallRejected

\* C34: the sync guard is always released: on every path through store
\* syncBookmarks that set isSyncing to true (the service reports success or
\* failure, the timestamp persistence throws) isSyncing eventually becomes
\* false again, and a sync requested when no pass is in flight is never
\* rejected by the guard.
C34_GuardReleased ==
    /\ isSyncing ~> ~isSyncing
    /\ [][~IdleSyncRejected]_vars

\* A pass has ended in the catch block, the guard is released, and the next
\* syncBookmarks call has been let in
C34_Witness ==
    /\ lastOp.op = "syncBookmarks"
    /\ "threw" \in DOMAIN lastOp
    /\ proc.sync.pc = "getTree"
    /\ isSyncing

\* A sync pass starts in this step
PassStarts == PassesInFlight' \ PassesInFlight # {}

\* The step is a caller's syncBookmarks call, or the end of a loadData that a
\* caller made
CallerStep == AllIdle \/ proc.load.pc = "loadLastSync"

\* No call is in flight and neither flag is set
ChainEnded == AllIdle /\ ~isLoading /\ ~isSyncing

\* C35: loadData and syncBookmarks do not recurse without bound: a pass is
\* started only by a caller's syncBookmarks or by the loadData a caller made,
\* never by the loadData performed inside a sync pass, whose auto-sync
\* request is rejected by the guard, also when the bookmarks collection
\* stays empty; at most one pass is in flight, and the whole chain terminates
\* with isLoading and isSyncing both false.
C35_NoUnboundedRecursion ==
    /\ [][PassStarts => CallerStep]_vars
    /\ [](Cardinality(PassesInFlight) <= 1)
    /\ [](proc.sync.pc = "savedTime" => proc.sync.autoSync # "started")
    /\ (isLoading \/ isSyncing) ~> ChainEnded

\* A loadData on an empty store has started a pass, the browser has no
\* bookmarks, and the loadData inside the pass has asked for a sync and was
\* turned away
C35_Witness ==
    /\ lastOp.op = "loadData"
    /\ lastOp.autoSync = "started"
    /\ proc.sync.pc = "savedTime"
    /\ proc.sync.autoSync = "rejected"
    /\ bookmarks = <<>>
    /\ ~isLoading

----------------------------------------------------------------------------
(* SpecSaveFail: store addBookmark, updateBookmark and deleteBookmark      *)
(* whose `await storageService.saveBookmarks(bookmarks.value)` is rejected. *)

\* The outer catch after a rejected saveBookmarks: log, return null / false;
\* before is bookmarks.value as it was when the call was made
SaveRejected(op, slot, before) ==
    /\ proc' = [proc EXCEPT ![slot] = Idle]
    /\ lastOp' = Done(op, FALSE)
                 @@ [sent |-> <<>>, failed |-> "saveBookmarks",
                     before |-> before]

\* newBookmark.originalId = browserBookmark.id; bookmarks.value.push(newBookmark);
\* `await storageService.saveBookmarks(bookmarks.value)` is rejected
AddBookmarkSaveFailed ==
    /\ proc.add.pc = "created"
    /\ LET newBookmark ==
               IF proc.add.browserId # Undef
               THEN [proc.add.newBookmark EXCEPT !.originalId = proc.add.browserId]
               ELSE proc.add.newBookmark
       IN  bookmarks' = Append(bookmarks, newBookmark)
    /\ SaveRejected("addBookmark", "add", bookmarks)
    /\ UNCHANGED <<hostVars, listeners, persVars, categories, tags, lastSyncTime,
                   isSyncing, isLoading, now, uuidSeq, pass, prevPass>>

\* bookmarks.value[index] = updatedBookmark;
\* `await storageService.saveBookmarks(bookmarks.value)` is rejected
UpdateBookmarkSaveFailed ==
    /\ proc.upd.pc = "hosted"
    /\ proc.upd.caller = "user"
    /\ proc.upd.index <= Len(bookmarks)
    /\ bookmarks' = [bookmarks EXCEPT ![proc.upd.index] = proc.upd.updatedBookmark]
    /\ SaveRejected("updateBookmark", "upd", bookmarks)
    /\ UNCHANGED <<hostVars, listeners, persVars, categories, tags, lastSyncTime,
                   isSyncing, isLoading, now, uuidSeq, pass, prevPass>>

\* bookmarks.value.splice(index, 1);
\* `await storageService.saveBookmarks(bookmarks.value)` is rejected
DeleteBookmarkSaveFailed ==
    /\ proc.del.pc = "removed"
    /\ bookmarks' = RemoveAt(bookmarks, proc.del.index)
    /\ SaveRejected("deleteBookmark", "del", bookmarks)
    /\ UNCHANGED <<hostVars, listeners, persVars, categories, tags, lastSyncTime,
                   isSyncing, isLoading, now, uuidSeq, pass, prevPass>>

NextSaveFail ==
    \/ AllIdle /\ AddBookmarkCall
    \/ AllIdle /\ UpdateBookmarkCall
    \/ AllIdle /\ DeleteBookmarkCall
    \/ AddBookmarkSteps
    \/ UpdateBookmarkSteps
    \/ DeleteBookmarkSteps
    \/ AddBookmarkSaveFailed
    \/ UpdateBookmarkSaveFailed
    \/ DeleteBookmarkSaveFailed
    \/ AllIdle /\ Tick

SpecSaveFail == InitStore /\ [][NextSaveFail]_vars

\* The last call was an addBookmark, updateBookmark or deleteBookmark that
\* returned null / false because saveBookmarks was rejected, and nothing has
\* been called since
SaveFailed ==
    /\ AllIdle
    /\ lastOp.op \in {"addBookmark", "updateBookmark", "deleteBookmark"}
    /\ "failed" \in DOMAIN lastOp

\* C36: failure atomicity of store mutations: whenever store addBookmark
\* returns null, or updateBookmark / deleteBookmark return false, because
\* persisting failed, the store's bookmarks list is the same as before the
\* call and equals the persisted bookmarks collection, and no
\* 'bookmark-added' / 'bookmark-updated' / 'bookmark-deleted' message has
\* been published.
C36_FailureAtomicity ==
    SaveFailed =>
        /\ bookmarks = lastOp.before
        /\ bookmarks = pBookmarks
        /\ lastOp.sent = <<>>

====
